---- MODULE Spec2Model ----
(***************************************************************************)
(* Model of the cross-ABI execution core of ipasim:                        *)
(*   src/src/IpaSimulator/DynamicLoader.cpp  (loader, hooks, state machine)*)
(*   src/include/ipasim/SysTranslator.hpp    (callers, decoder, members)   *)
(*                                                                         *)
(* Paths are sequences of tokens (a separator, a name, an extension), so   *)
(* that the string operations of the code (prefix, suffix, concatenation,  *)
(* separator replacement) are computed and not assumed.  Guest memory is a *)
(* byte map; 32-bit words are four little-endian bytes and are added with  *)
(* carry, so that arithmetic is modulo 2^32.                               *)
(***************************************************************************)
EXTENDS Integers, Sequences, FiniteSets, TLC

VARIABLES
  LIs,          \* DynamicLoader::LIs: resolved path -> library record
  NextId,       \* identity of the next library record allocated
  Errors,       \* messages passed to DynamicLoader::error so far
  Mem,          \* bytes of host/guest memory written by the loader
  Mapped,       \* regions handed to uc_mem_map_ptr
  Loads,        \* history of the top-level load calls: path, resolved, result
  Running,      \* SysTranslator::Running
  Restart,      \* SysTranslator::Restart
  Continue,     \* SysTranslator::Continue
  Continuation, \* SysTranslator::Continuation: the thunk stored last
  LRs,          \* SysTranslator::LRs: stack of saved guest LR values
  Reg,          \* guest registers LR, R0..R3
  PC,           \* guest program counter of the emulator
  StopReq,      \* uc_emu_stop was called and uc_emu_start has not returned yet
  Stack,        \* host call stack: frames of the one thread, innermost last
  Aborted,      \* an exception left the core or an assertion failed
  Unit          \* the call a unit-level specification is making: its object,
                \* its arguments and what it has returned so far

machineVars == <<Running, Restart, Continue, Continuation, LRs, Reg, PC, StopReq,
                 Stack, Aborted, Unit>>
vars == <<LIs, NextId, Errors, Mem, Mapped, Loads, Running, Restart, Continue,
          Continuation, LRs, Reg, PC, StopReq, Stack, Aborted, Unit>>

(***************************************************************************)
(* Bounds of the model.                                                    *)
(***************************************************************************)
MaxLoads == 3
\* Most execute(addr) calls nested in one another, and most saved return
\* addresses when the host calls back.
MaxDepth == 2

(***************************************************************************)
(* Program constants.                                                      *)
(***************************************************************************)
PageSize == 4096
\* (uint64_t)(-1), the initial LowAddr: above every address of the model.
LowAddrInit == 2147483647
VM_PROT_READ == 1
VM_PROT_WRITE == 2
VM_PROT_EXECUTE == 4

Null == 0

\* The address of the kernel page the constructor allocates.
KernelAddr == 65536

(***************************************************************************)
(* Small helpers.                                                          *)
(***************************************************************************)
startsWith(s, p) == Len(s) >= Len(p) /\ SubSeq (s, 1, Len(p)) = p
endsWith(s, p) == Len(s) >= Len(p) /\ SubSeq(s, Len(s) - Len(p) + 1, Len(s)) = p

roundToPageSize(x) == ((x + PageSize - 1) \div PageSize) * PageSize
alignToPageSize(x) == (x \div PageSize) * PageSize

(***************************************************************************)
(* 32-bit words as four little-endian bytes.                               *)
(***************************************************************************)
ToBytes32(n) ==
  << n % 256, (n \div 256) % 256, (n \div 65536) % 256, (n \div 16777216) % 256 >>

ZeroWord == <<0, 0, 0, 0>>

\* uint32 addition: the carry out of the fourth byte is dropped.
Add32(x, y) ==
  LET s1 == x[1] + y[1]
      s2 == x[2] + y[2] + (s1 \div 256)
      s3 == x[3] + y[3] + (s2 \div 256)
      s4 == x[4] + y[4] + (s3 \div 256)
  IN  << s1 % 256, s2 % 256, s3 % 256, s4 % 256 >>


(***************************************************************************)
(* Paths.  BinaryPath{Path, Relative}.                                     *)
(***************************************************************************)
\* filesystem::path::make_preferred on the host: every '/' becomes '\'.
make_preferred(p) == [i \in 1..Len(p) |-> IF p[i] = "/" THEN "\\" ELSE p[i]]

IsSeparator(t) == t = "/" \/ t = "\\"

\* filesystem::path::is_relative on the host: a path is absolute only when it
\* has a root name (a drive) followed by a root directory.
is_relative(p) == ~(Len(p) >= 2 /\ p[1] = "C:" /\ IsSeparator(p[2]))

\* resolvePath without the "gen" prefix.
resolvePathKeepsRoot(Path) ==
  IF Path # <<>> /\ Path[1] = "/"
    THEN [Path |-> make_preferred(Path), Relative |-> TRUE]
    ELSE [Path |-> Path, Relative |-> is_relative(Path)]

resolvePath(Path) ==
  IF Path # <<>> /\ Path[1] = "/"
    THEN [Path |-> make_preferred(<<"gen">> \o Path), Relative |-> TRUE]
    ELSE [Path |-> Path, Relative |-> is_relative(Path)]

\* filesystem::path::filename: what follows the last separator.
RECURSIVE filename(_)
filename(p) ==
  IF \E i \in 1..Len(p) : IsSeparator(p[i])
    THEN filename(Tail(p))
    ELSE p

IsExtension(t) == t \in {".dll", ".wrapper", ".txt"}

\* filesystem::path::replace_extension(".wrapper.dll") of a file name.
replace_extension(f) ==
  (IF f # <<>> /\ IsExtension(f[Len(f)]) THEN SubSeq(f, 1, Len(f) - 1) ELSE f)
    \o <<".wrapper", ".dll">>

\* filesystem::path("gen") / filename(LibPath).replace_extension(".wrapper.dll")
WrapperPathOf(LibPath) == <<"gen", "\\">> \o replace_extension(filename(LibPath))

(***************************************************************************)
(* The files of the package: what the platform queries and the binary      *)
(* parsers report for each path.  They are the inputs of the loader.       *)
(***************************************************************************)
Segment(va, vs, prot, content, relocs) ==
  [virtual_address |-> va, virtual_size |-> vs, init_protection |-> prot,
   content |-> content, relocations |-> relocs]

\* A relocation as LIEF reports it.
Reloc(addr) ==
  [address |-> addr, is_pc_relative |-> FALSE, origin |-> "ORIGIN_DYLDINFO",
   size |-> 32]

Binding(cls, lib, sym, addr) ==
  [binding_class |-> cls, binding_type |-> "BIND_TYPE_POINTER", addend |-> 0,
   has_library |-> TRUE, library |-> lib, symbol |-> sym, address |-> addr]

MachOFile(cpu, split, ftype, pie, alloc, segs, libs, binds, syms, types, entry) ==
  [valid |-> TRUE, magic |-> "macho", cpu_type |-> cpu, MH_SPLIT_SEGS |-> split,
   file_type |-> ftype, is_pie |-> pie, alloc |-> alloc, segments |-> segs,
   libraries |-> libs, bindings |-> binds, symbols |-> syms, types |-> types,
   entrypoint |-> entry]

PEFile(loads, info, base, image, syms, types, idx) ==
  [valid |-> TRUE, magic |-> "pe", LoadPackagedLibrary |-> loads,
   GetModuleInformation |-> info, lpBaseOfDll |-> base, SizeOfImage |-> image,
   symbols |-> syms, types |-> types, Idx |-> idx]

OtherFile == [valid |-> TRUE, magic |-> "other"]
NoFile == [valid |-> FALSE, magic |-> "none"]

NoSyms == [n \in {} |-> 0]
NoIdx == [Map |-> [r \in {} |-> 0], Dylibs |-> <<>>]

(***************************************************************************)
(* The package used by the model.  Addresses are bytes; every image base   *)
(* is page-aligned.  Type strings are sequences of characters.             *)
(***************************************************************************)
AppPath == <<"/", "app">>
LibLPath == <<"/", "L">>
LibMPath == <<"/", "M">>
FrameworkPath == <<"/", "F">>
FWrapperPath == <<"gen", "\\", "F", ".wrapper", ".dll">>

\* gen\app: a PIE executable; __DATA holds a pointer, a null and a lazy
\* pointer that is both rebased and bound.
AppFile ==
  MachOFile("CPU_TYPE_ARM", FALSE, "MH_EXECUTE", TRUE, 131072,
    << Segment(0, 4096, 0, <<>>, <<>>),
       Segment(4096, 4096, 5, <<1, 2, 3, 4, 5, 6, 7, 8>>, <<>>),
       Segment(8192, 4096, 3, ToBytes32(4100) \o ZeroWord \o ToBytes32(4104),
               << Reloc(8192), Reloc(8196), Reloc(8200) >>) >>,
    << FrameworkPath, LibLPath >>,
    << Binding("BIND_CLASS_LAZY", FrameworkPath, "_f", 8200) >>,
    ("__mh_execute_header" :> 4096) @@ ("_cb" :> 4100),
    (4100 :> <<"i", "@", ":">>) @@ (4104 :> <<"{", "S", "=", "i", "i", "}", "@">>)
      @@ (4108 :> <<"v", "@">>),
    4096)

\* gen\L: a dylib whose preferred addresses lie above its allocation (the
\* slide wraps) and which refers to gen\M, which refers back to it.
LibLFile ==
  MachOFile("CPU_TYPE_ARM", FALSE, "MH_DYLIB", FALSE, 196608,
    << Segment(1048576, 4096, 5, <<9, 9, 9, 9>>, <<>>),
       Segment(1052672, 4096, 3, <<240, 255, 255, 255>> \o ToBytes32(1048580),
               << Reloc(4096), Reloc(4100), Reloc(4104) >>) >>,
    << LibMPath >>, <<>>, NoSyms, [a \in {} |-> <<>>], 0)

LibMFile ==
  MachOFile("CPU_TYPE_ARM", FALSE, "MH_BUNDLE", FALSE, 212992,
    << Segment(0, 4096, 5, <<7, 7, 7, 7>>, << Reloc(0) >>) >>,
    << LibLPath, LibMPath >>, <<>>, NoSyms, [a \in {} |-> <<>>], 0)

\* Mach-O files the header checks complain about.
BadHeaderFile(cpu, split, ftype, pie, alloc) ==
  MachOFile(cpu, split, ftype, pie, alloc,
    << Segment(0, 4096, 5, <<1, 0, 0, 0>>, << Reloc(0) >>) >>,
    <<>>, <<>>, NoSyms, [a \in {} |-> <<>>], 0)

\* gen\far: a dylib whose first segment carries relocations that point past
\* it: at its end (VAddr + VSize, which the range test lets through) and into
\* the third segment; its third segment carries one that points back into
\* the second, which is in memory by then.
FarFile ==
  MachOFile("CPU_TYPE_ARM", FALSE, "MH_DYLIB", FALSE, 409600,
    << Segment(0, 4096, 5, ToBytes32(8), << Reloc(0), Reloc(4096), Reloc(8192) >>),
       Segment(4096, 4096, 3, ToBytes32(16) \o ToBytes32(24), <<>>),
       Segment(8192, 4096, 3, ToBytes32(32), << Reloc(4100) >>) >>,
    <<>>, <<>>, NoSyms, [a \in {} |-> <<>>], 0)

\* gen\F: a host DLL posing as a framework (it exports _mh_dylib_header).
FrameworkFile ==
  PEFile(TRUE, TRUE, 262144, 8192,
    ("_mh_dylib_header" :> 4096) @@ ("_f" :> 4112) @@ ("_dyn" :> 4128)
      @@ ("_dyn7" :> 4144) @@ ("_none" :> 4160),
    (32 :> <<"v", "@", ":", "i">>)
      @@ (48 :> <<"i", "@", ":", "i", "i", "i", "i", "i">>),
    NoIdx)

\* gen\F.wrapper.dll: the generated wrapper of gen\F with its WrapperIndex.
FWrapperFile ==
  PEFile(TRUE, TRUE, 327680, 8192,
    ("?Idx@@3UWrapperIndex@@A" :> 64) @@ ("$__ipaSim_wraps_4112" :> 128),
    [a \in {} |-> <<>>],
    [Map |-> (4112 :> 1), Dylibs |-> << FWrapperPath >>])

Files ==
  (<<"gen", "\\", "app">> :> AppFile)
  @@ (<<"gen", "\\", "L">> :> LibLFile)
  @@ (<<"gen", "\\", "M">> :> LibMFile)
  @@ (<<"gen", "\\", "F">> :> FrameworkFile)
  @@ (FWrapperPath :> FWrapperFile)
  @@ (<<"gen", "\\", "x86">> :>
        BadHeaderFile("CPU_TYPE_X86", FALSE, "MH_DYLIB", FALSE, 393216))
  @@ (<<"gen", "\\", "split">> :>
        BadHeaderFile("CPU_TYPE_ARM", TRUE, "MH_DYLIB", FALSE, 397312))
  @@ (<<"gen", "\\", "obj">> :>
        BadHeaderFile("CPU_TYPE_ARM", FALSE, "MH_OBJECT", FALSE, 401408))
  @@ (<<"gen", "\\", "nopie">> :>
        BadHeaderFile("CPU_TYPE_ARM", FALSE, "MH_EXECUTE", FALSE, 405504))
  @@ (<<"gen", "\\", "far">> :> FarFile)
  @@ (<<"noload", ".dll">> :> PEFile(FALSE, FALSE, 0, 0, NoSyms, [a \in {} |-> <<>>], NoIdx))
  @@ (<<"noinfo", ".dll">> :> PEFile(TRUE, FALSE, 0, 0, NoSyms, [a \in {} |-> <<>>], NoIdx))
  @@ (<<"host", ".dll">> :> PEFile(TRUE, TRUE, 458752, 4096, ("_h" :> 16), [a \in {} |-> <<>>], NoIdx))
  \* odd.dll: a poser with sections aligned to 512 bytes; neither its
  \* header nor the end of its image is page-aligned.
  @@ (<<"odd", ".dll">> :>
        PEFile(TRUE, TRUE, 655360, 8704, ("_mh_dylib_header" :> 5120),
               [a \in {} |-> <<>>], NoIdx))
  @@ (<<"readme", ".txt">> :> OtherFile)
  @@ (<<"libdyld", ".dll">> :>
        PEFile(TRUE, TRUE, 524288, 4096, ("_dyld_initialize" :> 16), [a \in {} |-> <<>>], NoIdx))
  @@ (<<"libobjc", ".dll">> :>
        PEFile(TRUE, TRUE, 589824, 4096, ("_objc_init" :> 16), [a \in {} |-> <<>>], NoIdx))

(***************************************************************************)
(* Loader state threaded through load / loadMachO / loadPE:                *)
(*   [LIs, NextId, Errors, Mem, Mapped].                                   *)
(* Mem = [bytes: address -> byte, zero: set of <<lo, hi>> cleared ranges]. *)
(* A byte in neither is indeterminate (never written by the program).      *)
(***************************************************************************)
ErrorRec(msg, arg) == [msg |-> msg, arg |-> arg]

\* DynamicLoader::error: the message goes to the debugging console.
error(st, msg, arg) == [st EXCEPT !.Errors = @ \cup {ErrorRec(msg, arg)}]

\* if (failed) error(msg);
errorIf(failed, st, msg) == IF failed THEN error(st, msg, <<>>) ELSE st

ByteKnown(mem, a) ==
  a \in DOMAIN mem.bytes \/ \E r \in mem.zero : r[1] <= a /\ a < r[2]
ByteAt(mem, a) == IF a \in DOMAIN mem.bytes THEN mem.bytes[a] ELSE 0
WordKnown(mem, a) == \A k \in 0..3 : ByteKnown(mem, a + k)
WordAt(mem, a) ==
  << ByteAt(mem, a), ByteAt(mem, a + 1), ByteAt(mem, a + 2), ByteAt(mem, a + 3) >>
StoreWord(mem, a, w) ==
  [mem EXCEPT !.bytes = [k \in a..(a + 3) |-> w[k - a + 1]] @@ @]
memcpy(mem, a, buff) ==
  [mem EXCEPT !.bytes = [k \in a..(a + Len(buff) - 1) |-> buff[k - a + 1]] @@ @]
memset0(mem, lo, hi) ==
  [bytes |-> [k \in {x \in DOMAIN mem.bytes : x < lo \/ x >= hi} |-> mem.bytes[k]],
   zero |-> mem.zero \cup {<<lo, hi>>}]

\* uc_mem_map_ptr accepts a non-empty, page-aligned region that overlaps no
\* region mapped before.
MapAccepted(mapped, Addr, Size) ==
  /\ Size > 0
  /\ Addr % PageSize = 0
  /\ Size % PageSize = 0
  /\ \A m \in mapped : Addr + Size <= m.Addr \/ m.Addr + m.Size <= Addr

mapMemory(st, Addr, Size, Perms) ==
  IF MapAccepted(st.Mapped, Addr, Size)
    THEN [st EXCEPT !.Mapped = @ \cup {[Addr |-> Addr, Size |-> Size, Perms |-> Perms]}]
    ELSE error(st, "couldn't map memory", <<>>)

UC_PROT_READ == 1
UC_PROT_WRITE == 2

\* The unmapped-access hook: map the page of Addr, so that emulation can
\* continue; it returns true whatever mapMemory did.
handleMemUnmapped(st, Addr, Size) ==
  mapMemory(st, alignToPageSize(Addr), roundToPageSize(Size),
            UC_PROT_READ + UC_PROT_WRITE)

FileAt(Path) ==
  LET Find(files, p) == IF p \in DOMAIN files THEN files[p] ELSE NoFile
  IN  Find(Files, make_preferred(Path))

\* A record as the constructors leave it: the fields set later are not yet
\* initialised (init = FALSE until StartAddress and Size are stored).
NewRecord(id, kind, Path) ==
  [Id |-> id, Kind |-> kind, File |-> Path, init |-> FALSE, StartAddress |-> 0,
   Size |-> 0, IsWrapperDLL |-> FALSE, MachOPoser |-> FALSE]

\* LoadedLibrary::findSymbol: the address of an exported symbol, or 0.
findSymbol(L, Name) ==
  LET Find(f) ==
        IF Name \in DOMAIN f.symbols
          THEN f.symbols[Name] + (IF L.Kind = "Dll" THEN f.lpBaseOfDll ELSE L.StartAddress)
          ELSE 0
  IN  Find(FileAt(L.File))

\* The record a LoadedLibrary pointer designates.
RecordOf(lis, id) == lis[CHOOSE p \in DOMAIN lis : lis[p].Id = id]

canSegmentsSlide(f) ==
  \/ f.file_type = "MH_DYLIB"
  \/ f.file_type = "MH_BUNDLE"
  \/ (f.file_type = "MH_EXECUTE" /\ f.is_pie)

\* loadMachO, header checks: each failed check reports an error and loading
\* goes on.
CheckHeader(st, f) ==
  errorIf(~canSegmentsSlide(f),
    errorIf(f.MH_SPLIT_SEGS,
      errorIf(f.cpu_type # "CPU_TYPE_ARM", st, "expected ARM binary"),
      "MH_SPLIT_SEGS not supported"),
    "the binary is not slideable")

\* loadMachO, first loop: [LowAddr, HighAddr) and the overlap report.
RECURSIVE SegmentRange(_, _, _)
SegmentRange(segs, i, acc) ==
  IF i > Len(segs) THEN acc
  ELSE
    LET SegLow == segs[i].virtual_address
        SegHigh == roundToPageSize(SegLow + segs[i].virtual_size)
        overlap == \/ (SegLow < acc.HighAddr /\ SegLow >= acc.LowAddr)
                   \/ (SegHigh > acc.LowAddr /\ SegHigh <= acc.HighAddr)
    IN  SegmentRange(segs, i + 1,
          [LowAddr |-> IF SegLow < acc.LowAddr THEN SegLow ELSE acc.LowAddr,
           HighAddr |-> IF SegHigh > acc.HighAddr THEN SegHigh ELSE acc.HighAddr,
           overlap |-> acc.overlap \/ overlap])

HasBit(v, b) == (v \div b) % 2 = 1

\* VM_PROT_* -> UC_PROT_* (the same three bits).
ConvertProtection(VMProt) ==
  (IF HasBit(VMProt, VM_PROT_READ) THEN 1 ELSE 0)
  + (IF HasBit(VMProt, VM_PROT_WRITE) THEN 2 ELSE 0)
  + (IF HasBit(VMProt, VM_PROT_EXECUTE) THEN 4 ELSE 0)

\* One relocation of the rebase loop.  Slide is the uint64 difference
\* Addr - LowAddr as an integer (negative: wrapped); only its low 32 bits
\* reach the uint32 store.  A word the program has not written yet is
\* indeterminate and stays indeterminate whichever branch the test takes.
\* (Rel.address() & R_SCATTERED is 0 for every address of the model.)
\* Faulty variant: the rebase loop without the test for NULL pointers.
RelocateOneSlidesZero(st, Rel, VAddr, VSize, Slide, LowAddr) ==
  LET RelAddr == LowAddr + Slide + Rel.address
  IN  IF WordKnown(st.Mem, RelAddr)
        THEN [st EXCEPT !.Mem =
                StoreWord(@, RelAddr, Add32(WordAt(st.Mem, RelAddr), ToBytes32(Slide)))]
        ELSE st

RelocateOne(st, Rel, VAddr, VSize, Slide, LowAddr) ==
  LET RelBase == LowAddr + Slide
      RelAddr == RelBase + Rel.address
      \* if (*Val != 0) *Val = *Val + Slide;
      SlideWord(s2) ==
        IF WordKnown(s2.Mem, RelAddr) /\ WordAt(s2.Mem, RelAddr) # ZeroWord
          THEN [s2 EXCEPT !.Mem =
                  StoreWord(@, RelAddr, Add32(WordAt(s2.Mem, RelAddr), ToBytes32(Slide)))]
          ELSE s2
  IN  SlideWord(
        errorIf(RelAddr > VAddr + VSize \/ RelAddr < VAddr,
          errorIf(Rel.is_pc_relative \/ Rel.origin # "ORIGIN_DYLDINFO" \/ Rel.size # 32,
                  st, "unsupported relocation"),
          "relocation target out of range"))

RECURSIVE Relocate(_, _, _, _, _, _, _)
Relocate(st, rels, i, VAddr, VSize, Slide, LowAddr) ==
  IF i > Len(rels) THEN st
  ELSE Relocate(RelocateOne(st, rels[i], VAddr, VSize, Slide, LowAddr),
                rels, i + 1, VAddr, VSize, Slide, LowAddr)

\* loadMachO, second loop: copy, map and rebase one segment.
LoadSegment(st, Seg, Slide, LowAddr) ==
  LET Perms == ConvertProtection(Seg.init_protection)
      VAddr == Seg.virtual_address + Slide
      VSize == Seg.virtual_size
      Buff == Seg.content
      \* Clear the remaining memory.
      Clear(m) ==
        IF Len(Buff) < VSize
          THEN [m EXCEPT !.Mem = memset0(@, VAddr + Len(Buff), VAddr + VSize)]
          ELSE m
      \* Relocate addresses.
      Rebase(s1) ==
        IF Slide # 0
          THEN Relocate(s1, Seg.relocations, 1, VAddr, VSize, Slide, LowAddr)
          ELSE s1
  IN  Rebase(IF Perms = 0
               THEN mapMemory(st, VAddr, VSize, Perms)
               ELSE Clear(mapMemory([st EXCEPT !.Mem = memcpy(@, VAddr, Buff)],
                                    VAddr, VSize, Perms)))

RECURSIVE LoadSegments(_, _, _, _, _)
LoadSegments(st, segs, i, Slide, LowAddr) ==
  IF i > Len(segs) THEN st
  ELSE LoadSegments(LoadSegment(st, segs[i], Slide, LowAddr), segs, i + 1, Slide, LowAddr)

(***************************************************************************)
(* load, loadMachO, loadPE.  Each returns [st, L]: the loader state after  *)
(* the call and the LoadedLibrary pointer returned (a record Id, or Null). *)
(***************************************************************************)
WithRecord(st, Path, rec) == [st EXCEPT !.LIs = (Path :> rec) @@ @]

loadPE(st, Path) ==
  LET id == st.NextId
      \* Load the library into Unicorn engine.
      Map(s1, Start, Sz) == mapMemory(s1, alignToPageSize(Start), roundToPageSize(Sz), 3)
      \* Find out where it lies in memory.
      Locate(s0, f, Hdr) ==
        IF Hdr # 0
          THEN Map(WithRecord(s0, Path,
                     [s0.LIs[Path] EXCEPT !.init = TRUE, !.StartAddress = Hdr,
                        !.Size = f.SizeOfImage - (Hdr - f.lpBaseOfDll),
                        !.MachOPoser = TRUE]),
                   Hdr, f.SizeOfImage - (Hdr - f.lpBaseOfDll))
          ELSE Map(WithRecord(s0, Path,
                     [s0.LIs[Path] EXCEPT !.init = TRUE, !.StartAddress = f.lpBaseOfDll,
                        !.Size = f.SizeOfImage, !.MachOPoser = FALSE]),
                   f.lpBaseOfDll, f.SizeOfImage)
      \* Load it into memory.
      Load(s0, f) ==
        IF ~f.LoadPackagedLibrary
          THEN [st |-> [error(s0, "couldn't load DLL: ", Path) EXCEPT
                          !.LIs = [q \in DOMAIN s0.LIs \ {Path} |-> s0.LIs[q]]],
                L |-> Null]
        ELSE IF ~f.GetModuleInformation
          THEN [st |-> error(s0, "couldn't load module information", <<>>), L |-> Null]
        ELSE [st |-> Locate(s0, f, findSymbol(s0.LIs[Path], "_mh_dylib_header")),
              L |-> id]
  IN  \* Mark the library as found.
      Load([WithRecord(st, Path, NewRecord(id, "Dll", Path)) EXCEPT !.NextId = id + 1],
           FileAt(Path))

RECURSIVE load(_, _)
RECURSIVE loadMachO(_, _)
RECURSIVE LoadLibraries(_, _, _)
RECURSIVE BindSymbols(_, _, _, _)

\* Faulty variant: load finding only Mach-O records in the index.
loadDllAgain(st, Path) ==
  LET \* Recognize wrapper DLLs.
      Finish(BP, r) ==
        IF r.L # Null
          THEN [r EXCEPT !.st.LIs[BP.Path].IsWrapperDLL =
                  /\ BP.Relative
                  /\ startsWith(BP.Path, <<"gen", "\\">>)
                  /\ endsWith(BP.Path, <<".wrapper", ".dll">>)]
          ELSE r
      Load(BP, f) ==
        IF BP.Path \in DOMAIN st.LIs /\ st.LIs[BP.Path].Kind = "Dylib"
          THEN [st |-> st, L |-> st.LIs[BP.Path].Id]
        ELSE IF ~f.valid
          THEN [st |-> error(st, "invalid file: ", BP.Path), L |-> Null]
        ELSE IF f.magic \notin {"macho", "pe"}
          THEN [st |-> error(st, "invalid binary type: ", BP.Path), L |-> Null]
        ELSE Finish(BP, IF f.magic = "macho" THEN loadMachO(st, BP.Path)
                        ELSE loadPE(st, BP.Path))
      Resolved(BP) == Load(BP, FileAt(BP.Path))
  IN  Resolved(resolvePath(Path))

load(st, Path) ==
  LET \* Recognize wrapper DLLs.
      Finish(BP, r) ==
        IF r.L # Null
          THEN [r EXCEPT !.st.LIs[BP.Path].IsWrapperDLL =
                  /\ BP.Relative
                  /\ startsWith(BP.Path, <<"gen", "\\">>)
                  /\ endsWith(BP.Path, <<".wrapper", ".dll">>)]
          ELSE r
      Load(BP, f) ==
        IF BP.Path \in DOMAIN st.LIs
          THEN [st |-> st, L |-> st.LIs[BP.Path].Id]
        ELSE IF ~f.valid
          THEN [st |-> error(st, "invalid file: ", BP.Path), L |-> Null]
        ELSE IF f.magic \notin {"macho", "pe"}
          THEN [st |-> error(st, "invalid binary type: ", BP.Path), L |-> Null]
        ELSE Finish(BP, IF f.magic = "macho" THEN loadMachO(st, BP.Path)
                        ELSE loadPE(st, BP.Path))
      Resolved(BP) == Load(BP, FileAt(BP.Path))
  IN  Resolved(resolvePath(Path))

\* Load referenced libraries.
LoadLibraries(st, libs, i) ==
  IF i > Len(libs) THEN st ELSE LoadLibraries(load(st, libs[i]).st, libs, i + 1)

\* Bind external symbols.
BindSymbols(st, binds, i, Slide) ==
  IF i > Len(binds) THEN st
  ELSE
    LET BInfo == binds[i]
        TargetAddr == BInfo.address + Slide
        \* Find symbol's address and bind it.
        Bind(s1, SymAddr) ==
          IF SymAddr = 0
            THEN error(s1, "external symbol couldn't be resolved", <<>>)
            ELSE [s1 EXCEPT !.Mem = StoreWord(@, TargetAddr, ToBytes32(SymAddr))]
        \* Find symbol's library.
        Find(r) ==
          IF r.L = Null
            THEN error(r.st, "symbol's library couldn't be loaded", <<>>)
            ELSE Bind(r.st, findSymbol(RecordOf(r.st.LIs, r.L), BInfo.symbol))
    IN  BindSymbols(
          IF \/ BInfo.binding_class \notin {"BIND_CLASS_STANDARD", "BIND_CLASS_LAZY"}
             \/ BInfo.binding_type # "BIND_TYPE_POINTER"
             \/ BInfo.addend # 0
            THEN error(st, "unsupported binding info", <<>>)
          ELSE IF ~BInfo.has_library
            THEN error(st, "flat-namespace symbols are not supported yet", <<>>)
          ELSE Find(load(st, BInfo.library)),
          binds, i + 1, Slide)

loadMachO(st, Path) ==
  LET id == st.NextId
      \* After the first loop over the segments (rg): allocate, store
      \* StartAddress and Size, load the segments, the libraries, the bindings.
      Place(s2, rg, f) ==
        LET Size == rg.HighAddr - rg.LowAddr
            Addr == f.alloc
            Slide == Addr - rg.LowAddr
            Store(s3) ==
              WithRecord(s3, Path,
                [s3.LIs[Path] EXCEPT !.init = TRUE, !.StartAddress = Slide, !.Size = Size])
        IN  BindSymbols(
              LoadLibraries(
                LoadSegments(
                  Store(errorIf(Addr = 0, s2, "couldn't allocate memory for segments")),
                  f.segments, 1, Slide, rg.LowAddr),
                f.libraries, 1),
              f.bindings, 1, Slide)
      Ranged(s1, rg, f) ==
        Place(errorIf(rg.overlap, s1, "overlapping segments (after rounding to pagesize)"),
              rg, f)
      Parsed(f) ==
        Ranged(CheckHeader([WithRecord(st, Path, NewRecord(id, "Dylib", Path))
                              EXCEPT !.NextId = id + 1], f),
               SegmentRange(f.segments, 1,
                 [LowAddr |-> LowAddrInit, HighAddr |-> 0, overlap |-> FALSE]),
               f)
  IN  [st |-> Parsed(FileAt(Path)), L |-> id]

(***************************************************************************)
(* Specification SpecLoad: the host calls load on paths of the package.    *)
(***************************************************************************)
LoadPaths ==
  { AppPath, <<"gen", "\\", "app">>, <<"gen", "/", "app">>, LibLPath, FrameworkPath,
    FWrapperPath, <<"/", "far">>, <<"/", "x86">>, <<"/", "split">>, <<"/", "obj">>, <<"/", "nopie">>,
    <<"noload", ".dll">>, <<"noinfo", ".dll">>, <<"host", ".dll">>, <<"odd", ".dll">>,
    <<"readme", ".txt">>, <<"missing">>, <<>> }

LoaderState == [LIs |-> LIs, NextId |-> NextId, Errors |-> Errors, Mem |-> Mem,
                Mapped |-> Mapped]

EmptyLIs == [p \in {} |-> 0]
EmptyMem == [bytes |-> [a \in {} |-> 0], zero |-> {}]

NoContinuation == [kind |-> "none", Addr |-> 0, Returns |-> FALSE, Args |-> <<>>]

\* No unit-level call is being made.
NoUnit == [kind |-> "none"]

\* The state the constructor leaves: flags false, the kernel page mapped with
\* no permissions.
MachineInit ==
  /\ Running = FALSE
  /\ Restart = FALSE
  /\ Continue = FALSE
  /\ Continuation = NoContinuation
  /\ LRs = <<>>
  /\ Reg = [r \in {"LR", "R0", "R1", "R2", "R3"} |-> 0]
  /\ PC = 0
  /\ StopReq = FALSE
  /\ Stack = <<>>
  /\ Aborted = FALSE

Constructed ==
  /\ MachineInit
  /\ LIs = EmptyLIs
  /\ NextId = 1
  /\ Errors = {}
  /\ Mem = EmptyMem
  /\ Mapped = {[Addr |-> KernelAddr, Size |-> PageSize, Perms |-> 0]}
  /\ Loads = <<>>

LoaderInit == Constructed /\ Unit = NoUnit

SetLoaderState(st) ==
  /\ LIs' = st.LIs
  /\ NextId' = st.NextId
  /\ Errors' = st.Errors
  /\ Mem' = st.Mem
  /\ Mapped' = st.Mapped

\* A top-level call load(Path); the entry of Loads keeps what it returned and
\* what it reported.
LoadCall(Path) ==
  /\ Len(Loads) < MaxLoads
  /\ UNCHANGED machineVars
  /\ LET Record(r) ==
           /\ SetLoaderState([r.st EXCEPT !.Errors = Errors \cup @])
           /\ Loads' = Append(Loads,
                [Path |-> Path, Resolved |-> resolvePath(Path).Path, L |-> r.L,
                 Reported |-> {e.msg : e \in r.st.Errors}])
     IN  Record(load([LoaderState EXCEPT !.Errors = {}], Path))

LoadNext == \E Path \in LoadPaths : LoadCall(Path)

SpecLoad == LoaderInit /\ [][LoadNext]_vars

(***************************************************************************)
(* TypeDecoder.  T is the type string, i the cursor (1-based); the         *)
(* terminating NUL is at Len(T) + 1.  A result is [size, pos, errs]: pos   *)
(* is the cursor the call leaves, errs the messages it reported.           *)
(***************************************************************************)
InvalidSize == -1

Digits == {"0", "1", "2", "3", "4", "5", "6", "7", "8", "9"}

\* *T: the character under the cursor; beyond the NUL the read is outside
\* the string.
CharAt(T, i) ==
  IF i <= Len(T) THEN T[i] ELSE IF i = Len(T) + 1 THEN "NUL" ELSE "OUTSIDE"

RECURSIVE SkipDigits(_, _)
SkipDigits(T, i) == IF CharAt(T, i) \in Digits THEN SkipDigits(T, i + 1) ELSE i

\* for (++T; *T != '='; ++T) if (!*T) ...: the position of '=', or 0 when the
\* NUL comes first.
RECURSIVE SkipStructName(_, _)
SkipStructName(T, i) ==
  IF CharAt(T, i) = "=" THEN i
  ELSE IF CharAt(T, i) \in {"NUL", "OUTSIDE"} THEN 0
  ELSE SkipStructName(T, i + 1)

RECURSIVE getNextTypeSizeImpl(_, _)
RECURSIVE getNextTypeSize(_, _)
RECURSIVE StructFields(_, _, _, _)

\* while (*T != '}') { Size = getNextTypeSize(); ... TotalSize += Size; }
StructFields(T, i, TotalSize, errs) ==
  IF CharAt(T, i) = "}" THEN [size |-> TotalSize, pos |-> i, errs |-> errs]
  ELSE
    LET Field(r) ==
          IF r.size = InvalidSize
            THEN [size |-> InvalidSize, pos |-> r.pos, errs |-> errs \cup r.errs]
            ELSE StructFields(T, r.pos, TotalSize + r.size, errs \cup r.errs)
    IN  Field(getNextTypeSize(T, i))

\* getNextTypeSizeImpl with char taken as one byte wide.
getNextTypeSizeImplByteChar(T, i) ==
  LET c == CharAt(T, i)
  IN  IF c = "v" THEN [size |-> 0, pos |-> i, errs |-> {}]
      ELSE IF c = "c" THEN [size |-> 1, pos |-> i, errs |-> {}]
      ELSE IF c \in {"@", ":", "i", "I", "f"}
        THEN [size |-> 4, pos |-> i, errs |-> {}]
      ELSE IF c = "^"
        THEN LET Pointer(r) == [size |-> 4, pos |-> r.pos, errs |-> r.errs]
             IN  Pointer(getNextTypeSizeImpl(T, i + 1))
      ELSE IF c = "{"
        THEN LET eq == SkipStructName(T, i + 1)
             IN  IF eq = 0
                   THEN [size |-> InvalidSize, pos |-> Len(T) + 1,
                         errs |-> {"struct type ended unexpectedly"}]
                   ELSE StructFields(T, eq + 1, 0, {})
      ELSE [size |-> InvalidSize, pos |-> i, errs |-> {"unsupported type encoding"}]

getNextTypeSizeImpl(T, i) ==
  LET c == CharAt(T, i)
  IN  IF c = "v" THEN [size |-> 0, pos |-> i, errs |-> {}]
      ELSE IF c \in {"c", "@", ":", "i", "I", "f"}
        THEN [size |-> 4, pos |-> i, errs |-> {}]
      ELSE IF c = "^"
        THEN \* Skip the underlying type; its size (even invalid) is dropped.
             LET Pointer(r) == [size |-> 4, pos |-> r.pos, errs |-> r.errs]
             IN  Pointer(getNextTypeSizeImpl(T, i + 1))
      ELSE IF c = "{"
        THEN LET eq == SkipStructName(T, i + 1)
             IN  IF eq = 0
                   THEN [size |-> InvalidSize, pos |-> Len(T) + 1,
                         errs |-> {"struct type ended unexpectedly"}]
                   ELSE StructFields(T, eq + 1, 0, {})
      ELSE [size |-> InvalidSize, pos |-> i, errs |-> {"unsupported type encoding"}]

getNextTypeSize(T, i) ==
  LET \* Skip also digits.
      Skip(r) == [r EXCEPT !.pos = SkipDigits(T, r.pos + 1)]
  IN  Skip(getNextTypeSizeImpl(T, i))

\* bool hasNext() { return *T; }
hasNext(T, i) == CharAt(T, i) # "NUL"

(***************************************************************************)
(* SysTranslator: the state machine.  Operators work on the whole state S  *)
(* (loader fields and translator fields) and return the state they leave.  *)
(*                                                                         *)
(* Stack frames:                                                           *)
(*   executeLib  execute of a library, pc in dyld, objc, run               *)
(*   host        host code: an initialiser, a wrapper, a dynamically       *)
(*               called function                                           *)
(*   callBack    DynamicBackCaller::callBack(R) waiting for execute        *)
(*   execute     execute(uint64_t), pc in emu, afterEmu, inCont, afterCont *)
(*   thunk       a continuation called by execute                          *)
(* An execute frame also remembers, for the properties: depth0 and LR0     *)
(* (depth of LRs and guest LR at entry), unwound and LRout (returnToKernel *)
(* ran for it and wrote LRout to the guest LR), queued (what happened to   *)
(* the continuation accepted during its current emulator invocation) and   *)
(* LRq (the guest LR when that continuation was called).  A trampoline     *)
(* frame keeps its arguments in cont; a host frame has the return slot     *)
(* Ret of the closure call it made.                                        *)
(***************************************************************************)
State ==
  [LIs |-> LIs, NextId |-> NextId, Errors |-> Errors, Mem |-> Mem, Mapped |-> Mapped,
   Running |-> Running, Restart |-> Restart, Continue |-> Continue,
   Continuation |-> Continuation, LRs |-> LRs, Reg |-> Reg, PC |-> PC,
   StopReq |-> StopReq, Stack |-> Stack, Aborted |-> Aborted]

SetState(S) ==
  /\ LIs' = S.LIs
  /\ NextId' = S.NextId
  /\ Errors' = S.Errors
  /\ Mem' = S.Mem
  /\ Mapped' = S.Mapped
  /\ Running' = S.Running
  /\ Restart' = S.Restart
  /\ Continue' = S.Continue
  /\ Continuation' = S.Continuation
  /\ LRs' = S.LRs
  /\ Reg' = S.Reg
  /\ PC' = S.PC
  /\ StopReq' = S.StopReq
  /\ Stack' = S.Stack
  /\ Aborted' = S.Aborted

LoaderOf(S) ==
  [LIs |-> S.LIs, NextId |-> S.NextId, Errors |-> S.Errors, Mem |-> S.Mem,
   Mapped |-> S.Mapped]

WithLoader(S, st) ==
  [S EXCEPT !.LIs = st.LIs, !.NextId = st.NextId, !.Errors = st.Errors,
            !.Mem = st.Mem, !.Mapped = st.Mapped]

Frame(kind, pc) ==
  [kind |-> kind, pc |-> pc, depth0 |-> 0, LR0 |-> 0, unwound |-> FALSE, LRout |-> 0,
   queued |-> "none", cont |-> NoContinuation, Ret |-> 0, LRq |-> 0]

Top(stack) == stack[Len(stack)]
Pop(stack) == SubSeq(stack, 1, Len(stack) - 1)
SetTop(stack, f) == [stack EXCEPT ![Len(stack)] = f]
TopIs(stack, kind) == stack # <<>> /\ Top(stack).kind = kind

ExecuteFrames(stack) == {i \in 1..Len(stack) : stack[i].kind = "execute"}
\* The uc_emu_start calls that have not returned.
EmulatorCalls(stack) == {i \in ExecuteFrames(stack) : stack[i].pc = "emu"}

\* Ghost bookkeeping on the innermost execute frame (no effect on the program).
MarkTop(stack, field, value) ==
  IF TopIs(stack, "execute")
    THEN SetTop(stack, [Top(stack) EXCEPT ![field] = value])
    ELSE stack

\* throw "unicorn error", a failed assert, a crash: nothing in the core
\* catches it.
abort(S) == [S EXCEPT !.Aborted = TRUE]

\* LoadedLibrary::isInRange.  A StartAddress that wrapped (negative here) lies
\* above every address of the model.
isInRange(L, Addr) ==
  L.StartAddress >= 0 /\ L.StartAddress <= Addr /\ Addr < L.StartAddress + L.Size

NoLib == [Lib |-> Null, LibPath |-> <<>>]

lookup(lis, Addr) ==
  LET hits == {p \in DOMAIN lis : isInRange(lis[p], Addr)}
  IN  IF hits = {} THEN NoLib
      ELSE LET p == CHOOSE q \in hits : TRUE IN [Lib |-> lis[p].Id, LibPath |-> p]

\* LoadedLibrary::getMethodType: the type string registered for Addr, or <<>>.
getMethodType(L, Addr) ==
  LET Find(types) ==
        IF (Addr - L.StartAddress) \in DOMAIN types THEN types[Addr - L.StartAddress] ELSE <<>>
  IN  Find(FileAt(L.File).types)

\* Faulty variant: execute without LRs.push(LR).
executeKeepsLRs(S, Addr) ==
  [S EXCEPT !.Reg["LR"] = KernelAddr,
            !.Running = TRUE,
            !.PC = Addr,
            !.Stack = Append(@, [Frame("execute", "emu") EXCEPT
                                   !.depth0 = Len(S.LRs), !.LR0 = S.Reg["LR"]])]

\* execute(uint64_t Addr) up to its first uc_emu_start.
execute(S, Addr) ==
  [S EXCEPT !.LRs = Append(@, S.Reg["LR"]),
            !.Reg["LR"] = KernelAddr,
            !.Running = TRUE,
            !.PC = Addr,
            !.Stack = Append(@, [Frame("execute", "emu") EXCEPT
                                   !.depth0 = Len(S.LRs), !.LR0 = S.Reg["LR"]])]

\* Faulty variant: returnToKernel without Running = false.
returnToKernelKeepsRunning(S) ==
  IF S.LRs = <<>> THEN abort(S)
  ELSE [S EXCEPT !.Reg["LR"] = S.LRs[Len(S.LRs)],
                 !.LRs = SubSeq(S.LRs, 1, Len(S.LRs) - 1),
                 !.StopReq = TRUE,
                 !.Stack = MarkTop(MarkTop(@, "unwound", TRUE), "LRout", S.LRs[Len(S.LRs)])]

returnToKernel(S) ==
  IF S.LRs = <<>> THEN abort(S)
  ELSE [S EXCEPT !.Reg["LR"] = S.LRs[Len(S.LRs)],
                 !.LRs = SubSeq(S.LRs, 1, Len(S.LRs) - 1),
                 !.StopReq = TRUE,
                 !.Running = FALSE,
                 !.Stack = MarkTop(MarkTop(@, "unwound", TRUE), "LRout", S.LRs[Len(S.LRs)])]

returnToEmulation(S) ==
  IF S.Running THEN abort(S) ELSE [S EXCEPT !.Restart = TRUE]

\* What continueOutsideEmulation notes on the innermost execute frame.
Queued(S) ==
  IF TopIs(S.Stack, "execute") /\ Top(S.Stack).queued = "none"
    THEN "pending" ELSE "overwritten"

\* Faulty variant: continueOutsideEmulation without Running = false.
continueOutsideEmulationKeepsRunning(S, Cont) ==
  IF S.Continue THEN abort(S)
  ELSE [S EXCEPT !.Continue = TRUE,
                 !.Continuation = Cont,
                 !.StopReq = TRUE,
                 !.Stack = MarkTop(@, "queued", Queued(S))]

\* Faulty variant: continueOutsideEmulation without uc_emu_stop.
continueOutsideEmulationKeepsEmulating(S, Cont) ==
  IF S.Continue THEN abort(S)
  ELSE [S EXCEPT !.Continue = TRUE,
                 !.Continuation = Cont,
                 !.Running = FALSE,
                 !.Stack = MarkTop(@, "queued", Queued(S))]

\* Faulty variant: continueOutsideEmulation without its assertion.
continueOutsideEmulationUnchecked(S, Cont) ==
  [S EXCEPT !.Continue = TRUE,
            !.Continuation = Cont,
            !.StopReq = TRUE,
            !.Running = FALSE,
            !.Stack = MarkTop(@, "queued", Queued(S))]

continueOutsideEmulation(S, Cont) ==
  IF S.Continue THEN abort(S)
  ELSE [S EXCEPT !.Continue = TRUE,
                 !.Continuation = Cont,
                 !.StopReq = TRUE,
                 !.Running = FALSE,
                 !.Stack = MarkTop(@, "queued", Queued(S))]

\* The guest's stack as the callers of the model's functions leave it: the
\* words at SP, SP + 4, ...
GuestStack == << 11, 12, 13, 14 >>

RegName(RegId) == << "R0", "R1", "R2", "R3" >>[RegId + 1]

\* A DynamicCaller as constructed: RegId = UC_ARM_REG_R0, no arguments.
NewDynamicCaller == [RegId |-> 0, Args |-> <<>>]

RECURSIVE loadArg(_, _, _)

\* Faulty variant: loadArg reading the stack at SP + Args.size() * 4.
loadArgPastRegisters(S, DC, Size) ==
  IF Size <= 0 THEN DC
  ELSE IF DC.RegId <= 3
    THEN loadArg(S, [RegId |-> DC.RegId + 1,
                     Args |-> Append(DC.Args, S.Reg[RegName(DC.RegId)])], Size - 4)
    ELSE LET k == Len(DC.Args)
             w == IF k + 1 \in DOMAIN GuestStack THEN GuestStack[k + 1] ELSE 0
         IN  loadArg(S, [DC EXCEPT !.Args = Append(@, w)], Size - 4)

\* DynamicCaller::loadArg: one word of the argument per round.
loadArg(S, DC, Size) ==
  IF Size <= 0 THEN DC
  ELSE IF DC.RegId <= 3
    THEN loadArg(S, [RegId |-> DC.RegId + 1,
                     Args |-> Append(DC.Args, S.Reg[RegName(DC.RegId)])], Size - 4)
    ELSE LET k == Len(DC.Args) - 4
             w == IF k + 1 \in DOMAIN GuestStack THEN GuestStack[k + 1] ELSE 0
         IN  loadArg(S, [DC EXCEPT !.Args = Append(@, w)], Size - 4)

\* DynamicCaller::call: FALSE when the function has more than six argument
\* words, otherwise the host function is called.
CallSupported(Args) == Len(Args) <= 6

\* call2<N>: the parameter pack grows by Args[Args.size() - N], N counting
\* down to 0.
RECURSIVE call2(_, _, _)
call2(Args, N, Params) ==
  IF N > 0 THEN call2(Args, N - 1, Append(Params, Args[Len(Args) - N + 1]))
  ELSE Params

\* DynamicCaller::call with a host function that returns v: Called is the
\* parameter list the function at Addr received, if it was called.
DynamicCaller_call(S, DC, Returns, Addr, v) ==
  IF CallSupported(DC.Args)
    THEN [S |-> IF Returns THEN [S EXCEPT !.Reg["R0"] = v] ELSE S,
          ok |-> TRUE, made |-> TRUE, Called |-> call2(DC.Args, Len(DC.Args), <<>>)]
    ELSE [S |-> error(S, "function has too many arguments", <<>>),
          ok |-> FALSE, made |-> FALSE, Called |-> <<>>]

RECURSIVE LoadArgs(_, _, _, _)
\* handleFetchProtMem, "Process function arguments": ok = FALSE when a type
\* cannot be decoded.
LoadArgs(S, T, i, DC) ==
  IF ~hasNext(T, i) THEN [ok |-> TRUE, DC |-> DC, errs |-> {}]
  ELSE LET Load(r) ==
             IF r.size = InvalidSize THEN [ok |-> FALSE, DC |-> DC, errs |-> r.errs]
             ELSE [LoadArgs(S, T, r.pos, loadArg(S, DC, r.size)) EXCEPT
                     !.errs = @ \cup r.errs]
       IN  Load(getNextTypeSize(T, i))

Result(S, ok) == [S |-> S, ok |-> ok]

RECURSIVE Report(_, _)
Report(S, msgs) ==
  IF msgs = {} THEN S
  ELSE LET m == CHOOSE x \in msgs : TRUE
       IN  Report([S EXCEPT !.Errors = @ \cup {ErrorRec(m, <<>>)}], msgs \ {m})

\* handleFetchProtMem, the dynamic path: no wrapper is known for Addr but the
\* library has the type of an Objective-C method there.
DynamicCall(S, Addr, T) ==
  LET \* Process function arguments and queue the call.
      Queue(ret, la) ==
        IF ~la.ok THEN Result(Report(S, ret.errs \cup la.errs), FALSE)
        ELSE Result(continueOutsideEmulation(Report(S, ret.errs \cup la.errs),
                      [kind |-> "dynamic", Addr |-> Addr,
                       Returns |-> (ret.size = 4), Args |-> la.DC.Args]), TRUE)
      \* Handle return value.
      Decode(ret) ==
        IF ret.size \notin {0, 4}
          THEN Result(Report(S, ret.errs \cup {"unsupported return type"}), FALSE)
          ELSE Queue(ret, LoadArgs(S, T, ret.pos, NewDynamicCaller))
  IN  Decode(getNextTypeSize(T, 1))

\* Faulty variant: the hook calls the wrapper itself instead of deferring it.
WrapperCallInHook(S, Addr) ==
  Result([S EXCEPT !.Stack = @ \o << Frame("thunk", "call"), Frame("host", "wrapper") >>],
         TRUE)

\* handleFetchProtMem, the end: the target is in a wrapper DLL.
WrapperCall(S, Addr) ==
  Result(continueOutsideEmulation(S,
           [kind |-> "wrapper", Addr |-> Addr, Returns |-> FALSE,
            Args |-> << S.Reg["R0"] >>]), TRUE)

\* handleFetchProtMem, the target is in a library that is not a wrapper DLL:
\* find its wrapper through the WrapperIndex of gen\<name>.wrapper.dll.
\* Faulty variant: the alias found, the hook goes on as for a wrapper DLL.
JumpToAliasAsWrapper(S, NewAddr, RVA) ==
  IF NewAddr = 0
    THEN Result(error(S, "cannot find wrapper", << RVA >>), FALSE)
  ELSE IF lookup(S.LIs, NewAddr).Lib = Null
    THEN Result(abort(S), FALSE)
  ELSE WrapperCall(S, NewAddr)

\* handleFetchProtMem once the alias of the wrapper was looked up (NewAddr,
\* 0 if there is none): Wrapper is still false, so the hook writes the
\* address to PC and returns.
JumpToAlias(S, NewAddr, RVA) ==
  IF NewAddr = 0
    THEN Result(error(S, "cannot find wrapper", << RVA >>), FALSE)
  ELSE IF lookup(S.LIs, NewAddr).Lib = Null
    THEN Result(abort(S), FALSE)
  ELSE Result([S EXCEPT !.PC = NewAddr], TRUE)

NonWrapperCall(S, Addr, AI) ==
  LET Lib == S.LIs[AI.LibPath]
      RVA == Addr - Lib.StartAddress + 4096
      \* Find the correct wrapper using its alias.
      Alias(S2, WrapperDylib) ==
        IF WrapperDylib = Null THEN Result(S2, FALSE)
        ELSE JumpToAlias(S2, findSymbol(RecordOf(S2.LIs, WrapperDylib),
                                        "$__ipaSim_wraps_" \o ToString(RVA)), RVA)
      Loaded(S2, wd) == Alias(WithLoader(S2, wd.st), wd.L)
      \* Find Dylib with the corresponding wrapper.
      Dynamic(S1, T) ==
        IF T # <<>> THEN DynamicCall(S1, Addr, T)
        ELSE Result(error(S1, "cannot find RVA in WrapperIndex", << RVA >>), FALSE)
      Find(S1, IdxAddr, Idx) ==
        IF IdxAddr = 0 THEN Result(abort(S1), FALSE)
        ELSE IF RVA \notin DOMAIN Idx.Map THEN Dynamic(S1, getMethodType(Lib, Addr))
        ELSE Loaded(S1, load(LoaderOf(S1), Idx.Dylibs[Idx.Map[RVA]]))
      \* Load WrapperIndex.
      Index(S1, WrapperLib) ==
        IF WrapperLib = Null THEN Result(S1, FALSE)
        ELSE Find(S1, findSymbol(RecordOf(S1.LIs, WrapperLib), "?Idx@@3UWrapperIndex@@A"),
                  FileAt(RecordOf(S1.LIs, WrapperLib).File).Idx)
      Wrapped(wl) == Index(WithLoader(S, wl.st), wl.L)
  IN  Wrapped(load(LoaderOf(S), WrapperPathOf(AI.LibPath)))

handleFetchProtMem(S, Addr) ==
  LET AI == lookup(S.LIs, Addr)
  IN  IF AI.Lib = Null THEN
        IF Addr = KernelAddr THEN Result(returnToKernel(S), TRUE)
        ELSE Result(error(S, "unmapped address fetched", <<>>), FALSE)
      ELSE IF S.LIs[AI.LibPath].IsWrapperDLL THEN WrapperCall(S, Addr)
      ELSE NonWrapperCall(S, Addr, AI)

\* handleCode: the result of handleFetchProtMem is dropped.
handleCode(S, Addr) ==
  LET AI == lookup(S.LIs, Addr)
  IN  IF AI.Lib = Null THEN
        IF Addr = KernelAddr THEN returnToKernel(S)
        ELSE error(S, "unmapped address executed", <<>>)
      ELSE
        LET Check(S1, L) ==
              IF L # Null /\ RecordOf(S1.LIs, L).Kind = "Dylib" THEN S1
              ELSE handleFetchProtMem(S1, Addr).S
            Loaded(ld) == Check(WithLoader(S, ld.st), ld.L)
        IN  Loaded(load(LoaderOf(S), AI.LibPath))

(***************************************************************************)
(* Specification Spec: the program loads the application, runs             *)
(* execute(lib) and the guest and the host code call one another.          *)
(* The emulator keeps its contract: hooks fire only while uc_emu_start     *)
(* runs and no stop was requested, uc_emu_start returns once a stop was    *)
(* requested, and a hook that returns false makes it fail.                 *)
(***************************************************************************)
\* Where _aligned_malloc puts the guest's stack.
StackAddr == 16777216
StackSize == 8 * 1024 * 1024

\* Return addresses the guest's calls leave in LR (inside __TEXT of the app).
GuestLRs == {135176}

\* Where the guest's branches go: the kernel page, functions of gen\F (_f has
\* a wrapper, _dyn a method type, _dyn7 a method type of seven words, _none
\* nothing), the __DATA page of the app, the stack, an address of no mapping.
GuestTargets == {KernelAddr, 266256, 266272, 266288, 266304, 139264, StackAddr, 4}

\* Values host functions return.
Values == {7}

\* Function pointers the host passes to callBack: _cb of the app and a native
\* function.
CallbackPointers == {135172, 458768}

\* The function pointer the host passes to translate: _cb of the app.
TranslatedPointers == {135172}

RegionsAt(mapped, a) == {r \in mapped : r.Addr <= a /\ a < r.Addr + r.Size}
IsMapped(mapped, a) == RegionsAt(mapped, a) # {}
Executable(mapped, a) == \E r \in RegionsAt(mapped, a) : HasBit(r.Perms, VM_PROT_EXECUTE)

\* uc_emu_start is running and no stop was requested.
Emulating ==
  /\ ~Aborted
  /\ TopIs(Stack, "execute")
  /\ Top(Stack).pc = "emu"
  /\ ~StopReq

\* main: load the application.
LoadApp ==
  /\ ~Aborted
  /\ Stack = <<>>
  /\ LIs = EmptyLIs
  /\ LET Loaded(r) ==
           SetState([WithLoader(State, r.st) EXCEPT
                       !.Stack = << Frame("main", IF r.L = Null THEN "done" ELSE "loaded") >>])
     IN  Loaded(load(LoaderOf(State), AppPath))
  /\ UNCHANGED << Loads, Unit >>

\* call(Lib, Func, ...): load the library and call its function.
call(S, Lib, pc) ==
  LET Call(S1, L) ==
        IF L = Null THEN abort(S1)
        ELSE [S1 EXCEPT !.Stack = Append(@, Frame("host", pc))]
      Loaded(r) == Call(WithLoader(S, r.st), r.L)
  IN  Loaded(load(LoaderOf(S), Lib))

\* execute(LoadedLibrary *) up to the call of _dyld_initialize.
ExecuteLib ==
  /\ ~Aborted
  /\ TopIs(Stack, "main")
  /\ Top(Stack).pc = "loaded"
  /\ LET Lib == LIs[resolvePath(AppPath).Path]
         S0 == [State EXCEPT !.Stack = << Frame("main", "executing") >>]
     IN  IF Lib.Kind # "Dylib"
           THEN SetState(error([S0 EXCEPT !.Stack = << Frame("main", "done") >>],
                               "we can only execute Dylibs right now", <<>>))
           ELSE LET S1 == mapMemory(S0, StackAddr, StackSize, VM_PROT_READ + VM_PROT_WRITE)
                    S2 == [S1 EXCEPT !.Stack = Append(@, Frame("executeLib", "dyld"))]
                IN  SetState(call(S2, <<"libdyld", ".dll">>, "dyld"))
  /\ UNCHANGED << Loads, Unit >>

\* handleTrampoline once execute has returned, "extract return value": R0 goes
\* to the return slot of the host code that called the closure.
handleTrampolineReturn(S) ==
  LET Tr == Top(S.Stack).cont
      S1 == [S EXCEPT !.Stack = Pop(@)]
  IN  IF Tr.Returns
        THEN [S1 EXCEPT !.Stack = SetTop(@, [Top(S1.Stack) EXCEPT !.Ret = S.Reg["R0"]])]
        ELSE S1

\* execute(uint64_t) once uc_emu_start has returned and the continuation, if
\* any, has run: restart at LR or return to the caller.
Returned(S) ==
  LET S1 == [S EXCEPT !.Stack = Pop(@)]
  IN  IF TopIs(S1.Stack, "callBack") THEN [S1 EXCEPT !.Stack = Pop(@)]
      ELSE IF TopIs(S1.Stack, "trampoline") THEN handleTrampolineReturn(S1)
      ELSE IF TopIs(S1.Stack, "executeLib")
        THEN [S1 EXCEPT !.Stack = << Frame("main", "done") >>]
      ELSE S1

ExecuteLoop ==
  /\ ~Aborted
  /\ TopIs(Stack, "execute")
  /\ Top(Stack).pc = "afterCont"
  /\ IF Restart
       THEN SetState([State EXCEPT
                        !.Restart = FALSE,
                        !.PC = Reg["LR"],
                        !.Running = TRUE,
                        !.Stack = SetTop(@, [Top(Stack) EXCEPT !.pc = "emu",
                                                               !.queued = "none",
                                                               !.LRq = 0])])
       ELSE SetState(Returned(State))
  /\ UNCHANGED << Loads, Unit >>

\* uc_emu_start returns after a stop was requested; assert(!Running).
EmuReturn ==
  /\ ~Aborted
  /\ TopIs(Stack, "execute")
  /\ Top(Stack).pc = "emu"
  /\ StopReq
  /\ SetState(IF Running THEN abort([State EXCEPT !.StopReq = FALSE])
              ELSE [State EXCEPT !.StopReq = FALSE,
                                 !.Stack = SetTop(@, [Top(Stack) EXCEPT !.pc = "afterEmu"])])
  /\ UNCHANGED << Loads, Unit >>

\* if (Continue) { Continue = false; Continuation(); } up to the point where
\* the thunk calls the host function (or returns without calling it).
RunContinuation ==
  /\ ~Aborted
  /\ TopIs(Stack, "execute")
  /\ Top(Stack).pc = "afterEmu"
  /\ IF ~Continue
       THEN SetState([State EXCEPT
                        !.Stack = SetTop(@, [Top(Stack) EXCEPT !.pc = "afterCont"])])
       ELSE
         LET ran == IF Top(Stack).queued = "pending" THEN "running" ELSE "spurious"
             S1 == [State EXCEPT
                      !.Continue = FALSE,
                      !.Stack = SetTop(@, [Top(Stack) EXCEPT !.pc = "inCont",
                                                             !.queued = ran,
                                                             !.LRq = Reg["LR"]])]
             thunk == [Frame("thunk", "call") EXCEPT !.cont = Continuation]
         IN  IF Continuation.kind = "wrapper"
               THEN SetState([S1 EXCEPT !.Stack = @ \o << thunk, Frame("host", "wrapper") >>])
             ELSE IF Continuation.kind = "dynamic"
               THEN IF CallSupported(Continuation.Args)
                      THEN SetState([S1 EXCEPT
                                       !.Stack = @ \o << thunk, Frame("host", "dynamic") >>])
                      ELSE SetState(error([S1 EXCEPT
                                             !.Stack = SetTop(@, [Top(S1.Stack) EXCEPT
                                                        !.pc = "afterCont",
                                                        !.queued = IF ran = "running"
                                                                     THEN "ran" ELSE ran])],
                                          "function has too many arguments", <<>>))
             ELSE SetState(abort(S1))
  /\ UNCHANGED << Loads, Unit >>

\* The end of a continuation: the host function has returned to the thunk.
\* The dynamic thunk writes the result to R0 if the method returns a value;
\* both thunks then call returnToEmulation and return to execute.
ThunkReturn(S, v) ==
  LET cont == Top(S.Stack).cont
      S1 == IF cont.kind = "dynamic" /\ cont.Returns THEN [S EXCEPT !.Reg["R0"] = v] ELSE S
      S2 == returnToEmulation(S1)
      S3 == [S2 EXCEPT !.Stack = Pop(@)]
  IN  IF TopIs(S3.Stack, "execute")
        THEN [S3 EXCEPT !.Stack = SetTop(@, [Top(S3.Stack) EXCEPT
                          !.pc = "afterCont",
                          !.queued = IF @ = "running" THEN "ran" ELSE @])]
        ELSE S3

\* A host function returns to its caller, which goes on to its next call.
HostReturn(v) ==
  /\ ~Aborted
  /\ TopIs(Stack, "host")
  /\ Len(Stack) > 1
  /\ LET S1 == [State EXCEPT !.Stack = Pop(@)]
         caller == Top(S1.Stack)
     IN  IF caller.kind = "thunk" THEN SetState(ThunkReturn(S1, v))
         ELSE IF caller.kind = "executeLib" /\ caller.pc = "dyld"
           THEN SetState(call([S1 EXCEPT !.Stack = SetTop(@, Frame("executeLib", "objc"))],
                              <<"libobjc", ".dll">>, "objc"))
         ELSE IF caller.kind = "executeLib" /\ caller.pc = "objc"
           THEN LET Dylib == S1.LIs[resolvePath(AppPath).Path]
                IN  SetState(execute([S1 EXCEPT !.Stack = SetTop(@, Frame("executeLib", "run"))],
                                     FileAt(Dylib.File).entrypoint + Dylib.StartAddress))
         ELSE SetState(S1)
  /\ UNCHANGED << Loads, Unit >>

\* pushArgs: the arguments go to R0, R1, ...
pushArgs(S, Args) ==
  [S EXCEPT !.Reg = [r \in DOMAIN S.Reg |->
                       IF \E k \in 1..Len(Args) : r = RegName(k - 1)
                         THEN Args[CHOOSE k \in 1..Len(Args) : r = RegName(k - 1)]
                         ELSE S.Reg[r]]]

\* DynamicBackCaller::callBack up to the call it makes.
callBack(S, FP, Args) ==
  LET AI == lookup(S.LIs, FP)
  IN  IF AI.Lib = Null \/ S.LIs[AI.LibPath].Kind # "Dylib"
        THEN [S EXCEPT !.Stack = Append(@, Frame("host", "native"))]
        ELSE execute([pushArgs(S, Args) EXCEPT !.Stack = Append(@, Frame("callBack", "execute"))],
                     FP)

RECURSIVE CountArgs(_, _, _)
\* Faulty variant: the argument loop letting a fifth argument through.
CountArgsFive(T, i, ArgC) ==
  IF ~hasNext(T, i) THEN [ok |-> TRUE, ArgC |-> ArgC, errs |-> {}]
  ELSE LET Count(r) ==
             IF r.size = InvalidSize THEN [ok |-> FALSE, ArgC |-> ArgC, errs |-> r.errs]
             ELSE IF r.size = 4 THEN
               IF ArgC > 4
                 THEN [ok |-> FALSE, ArgC |-> ArgC,
                       errs |-> r.errs \cup {"callback has too many arguments"}]
                 ELSE [CountArgs(T, r.pos, ArgC + 1) EXCEPT !.errs = @ \cup r.errs]
             ELSE [ok |-> FALSE, ArgC |-> ArgC,
                   errs |-> r.errs \cup {"unsupported callback argument type"}]
       IN  Count(getNextTypeSize(T, i))

\* translate, "process function arguments": the number of argument words, or
\* ok = FALSE with the messages reported.
CountArgs(T, i, ArgC) ==
  IF ~hasNext(T, i) THEN [ok |-> TRUE, ArgC |-> ArgC, errs |-> {}]
  ELSE LET Count(r) ==
             IF r.size = InvalidSize THEN [ok |-> FALSE, ArgC |-> ArgC, errs |-> r.errs]
             ELSE IF r.size = 4 THEN
               IF ArgC > 3
                 THEN [ok |-> FALSE, ArgC |-> ArgC,
                       errs |-> r.errs \cup {"callback has too many arguments"}]
                 ELSE [CountArgs(T, r.pos, ArgC + 1) EXCEPT !.errs = @ \cup r.errs]
             ELSE [ok |-> FALSE, ArgC |-> ArgC,
                   errs |-> r.errs \cup {"unsupported callback argument type"}]
       IN  Count(getNextTypeSize(T, i))

NoTrampoline == [Returns |-> FALSE, ArgC |-> 0, Addr |-> 0]

\* What libffi can answer in translate: success, or a failure of
\* ffi_closure_alloc, ffi_prep_cif or ffi_prep_closure_loc.
FFIOutcomes == {"FFI_OK", "no closure", "bad CIF", "bad closure"}

\* What translate hands back: Ptr is "null", "same" for Addr itself, or
\* "closure" for a new closure bound to the trampoline Tr; Trs and Closures
\* count the Trampoline records and the closures the call allocated.
Translated(S, Ptr, Tr, Trs, Closures) ==
  [S |-> S, Ptr |-> Ptr, Tr |-> Tr, Trs |-> Trs, Closures |-> Closures]

\* translate once the method type T of the callback is known.
createTrampoline(S, Addr, T, ffi) ==
  LET \* Now, create trampoline.
      Create(ret, ca) ==
        IF ~ca.ok
          THEN Translated(Report(S, ret.errs \cup ca.errs), "null", NoTrampoline, 1, 0)
        ELSE IF ffi = "no closure"
          THEN Translated(Report(S, ret.errs \cup ca.errs \cup {"couldn't allocate closure"}),
                          "null", NoTrampoline, 1, 0)
        ELSE IF ffi = "bad CIF"
          THEN Translated(Report(S, ret.errs \cup ca.errs \cup {"couldn't prepare CIF"}),
                          "null", NoTrampoline, 1, 1)
        ELSE IF ffi = "bad closure"
          THEN Translated(Report(S, ret.errs \cup ca.errs \cup {"couldn't prepare closure"}),
                          "null", NoTrampoline, 1, 1)
        ELSE Translated(Report(S, ret.errs \cup ca.errs), "closure",
                        [Returns |-> (ret.size = 4), ArgC |-> ca.ArgC, Addr |-> Addr], 1, 1)
      \* First, handle the return value (Tr is allocated before it).
      Decode(ret) ==
        IF ret.size \notin {0, 4}
          THEN Translated(Report(S, ret.errs \cup {"unsupported return type of callback"}),
                          "null", NoTrampoline, 1, 0)
          ELSE Create(ret, CountArgs(T, ret.pos, 0))
  IN  Decode(getNextTypeSize(T, 1))

\* Faulty variant: translate handing back Addr when no method type is
\* registered for it.
translateUntyped(S, Addr, ffi) ==
  LET Typed(T) ==
        IF T = <<>> THEN Translated(S, "same", NoTrampoline, 0, 0)
        ELSE createTrampoline(S, Addr, T, ffi)
      Found(AI) ==
        IF AI.Lib = Null \/ S.LIs[AI.LibPath].Kind # "Dylib"
          THEN Translated(S, "same", NoTrampoline, 0, 0)
          ELSE Typed(getMethodType(S.LIs[AI.LibPath], Addr))
  IN  Found(lookup(S.LIs, Addr))

translate(S, Addr, ffi) ==
  LET Typed(T) ==
        IF T = <<>>
          THEN Translated(error(S, "callback not found", <<>>), "null", NoTrampoline, 0, 0)
          ELSE createTrampoline(S, Addr, T, ffi)
      Found(AI) ==
        IF AI.Lib = Null \/ S.LIs[AI.LibPath].Kind # "Dylib"
          THEN Translated(S, "same", NoTrampoline, 0, 0)
          ELSE Typed(getMethodType(S.LIs[AI.LibPath], Addr))
  IN  Found(lookup(S.LIs, Addr))

\* The frame of handleTrampoline(Ret, Args, Data): cont keeps *Data and Args.
TrampolineFrame(Tr, Args) ==
  [Frame("trampoline", "execute") EXCEPT
     !.cont = [kind |-> "trampoline", Addr |-> Tr.Addr, Returns |-> Tr.Returns,
               ArgC |-> Tr.ArgC, Args |-> Args]]

\* Faulty variant: handleTrampoline passing the arguments last to first.
handleTrampolineReversed(S, Tr, Args) ==
  execute([pushArgs(S, [k \in 1..Tr.ArgC |-> Args[Tr.ArgC + 1 - k]]) EXCEPT
             !.Stack = Append(@, TrampolineFrame(Tr, Args))],
          Tr.Addr)

\* handleTrampoline up to its call of execute: the first ArgC arguments go to
\* R0, R1, ...
handleTrampoline(S, Tr, Args) ==
  execute([pushArgs(S, SubSeq(Args, 1, Tr.ArgC)) EXCEPT
             !.Stack = Append(@, TrampolineFrame(Tr, Args))],
          Tr.Addr)

\* The heap of a specification that keeps account of it: the calls of
\* translate made, the emulated pointers they were given, the Trampoline
\* records and closures allocated (none is ever freed), and the last call:
\* its pointer P, the kind of library P lay in, the method type registered
\* for P, libffi's answer and what translate returned.
EmptyHeap ==
  [kind |-> "heap", Calls |-> 0, Translated |-> {}, Trampolines |-> 0, Closures |-> 0,
   Last |-> [P |-> Null, In |-> "none", T |-> <<>>, ffi |-> "FFI_OK", Ptr |-> "none",
             Tr |-> NoTrampoline]]

Allocated(U, S, FP, ffi, t) ==
  LET AI == lookup(S.LIs, FP)
      In == IF AI.Lib = Null THEN "none" ELSE S.LIs[AI.LibPath].Kind
  IN  IF U.kind # "heap" THEN U
      ELSE [U EXCEPT !.Calls = @ + 1,
                     !.Translated = @ \cup (IF In = "Dylib" THEN {FP} ELSE {}),
                     !.Trampolines = @ + t.Trs,
                     !.Closures = @ + t.Closures,
                     !.Last = [P |-> FP, In |-> In,
                               T |-> IF In = "Dylib"
                                       THEN getMethodType(S.LIs[AI.LibPath], FP)
                                       ELSE <<>>,
                               ffi |-> ffi, Ptr |-> t.Ptr, Tr |-> t.Tr]]

\* Host code translates a function pointer and calls what translate returned
\* (nothing when it returned null).
HostTrampoline(FP, Args, ffi) ==
  /\ ~Aborted
  /\ TopIs(Stack, "host")
  /\ Cardinality(ExecuteFrames(Stack)) < MaxDepth
  /\ Len(LRs) < MaxDepth
  /\ Top(Stack).pc # "native"
  /\ LET Call(t) ==
           /\ IF t.Ptr = "closure" THEN SetState(handleTrampoline(t.S, t.Tr, Args))
              ELSE IF t.Ptr = "same"
                THEN SetState([t.S EXCEPT !.Stack = Append(@, Frame("host", "native"))])
              ELSE SetState(t.S)
           /\ Unit' = Allocated(Unit, State, FP, ffi, t)
     IN  Call(translate(State, FP, ffi))
  /\ UNCHANGED Loads

\* Host code calls callBack or callBackR.
HostCallBack(FP, Args) ==
  /\ ~Aborted
  /\ TopIs(Stack, "host")
  /\ Cardinality(ExecuteFrames(Stack)) < MaxDepth
  /\ Len(LRs) < MaxDepth
  /\ Top(Stack).pc # "native"
  /\ SetState(callBack(State, FP, Args))
  /\ UNCHANGED << Loads, Unit >>

\* What an instruction of the guest does to the registers of the model.
Instructions ==
  [op : {"call", "jump"}, target : GuestTargets \cup {135172}, lr : GuestLRs]
    \cup [op : {"ret"}, target : {0}, lr : {0}]

Step(S, I) ==
  IF I.op = "call" THEN [S EXCEPT !.PC = I.target, !.Reg["LR"] = I.lr]
  ELSE IF I.op = "jump" THEN [S EXCEPT !.PC = I.target]
  ELSE [S EXCEPT !.PC = S.Reg["LR"]]

\* The emulator executes an instruction of an executable page: the code hook
\* runs first.
GuestStep(I) ==
  /\ Emulating
  /\ Executable(Mapped, PC)
  /\ LET Execute(S1) ==
           IF S1.Aborted \/ S1.StopReq \/ S1.PC # PC THEN SetState(S1)
           ELSE SetState(Step(S1, I))
     IN  Execute(handleCode(State, PC))
  /\ UNCHANGED << Loads, Unit >>

\* The emulator fetches from a mapped page that is not executable: the
\* UC_HOOK_MEM_FETCH_PROT hook runs; when it returns false uc_emu_start fails
\* and callUC throws.
FetchProtHook ==
  /\ Emulating
  /\ IsMapped(Mapped, PC)
  /\ ~Executable(Mapped, PC)
  /\ LET Handled(r) == SetState(IF r.ok THEN r.S ELSE abort(r.S))
     IN  Handled(handleFetchProtMem(State, PC))
  /\ UNCHANGED << Loads, Unit >>

\* The emulator misses the protection of the page (unicorn issue 888) and the
\* code hook runs for an address that is not executable.  The result of the
\* handler is dropped: unless it stopped or redirected the emulator, the
\* emulator is still about to fetch from the same address.
CodeHook ==
  /\ Emulating
  /\ IsMapped(Mapped, PC)
  /\ ~Executable(Mapped, PC)
  /\ SetState(handleCode(State, PC))
  /\ UNCHANGED << Loads, Unit >>

\* The emulator fetches from an address that is not mapped: no hook is
\* installed for it, uc_emu_start fails and callUC throws.
FetchUnmapped ==
  /\ Emulating
  /\ ~IsMapped(Mapped, PC)
  /\ SetState(abort(State))
  /\ UNCHANGED << Loads, Unit >>

Next ==
  \/ LoadApp
  \/ ExecuteLib
  \/ \E v \in Values : HostReturn(v)
  \/ \E FP \in CallbackPointers, Args \in {<< 5, 6 >>} : HostCallBack(FP, Args)
  \/ \E FP \in TranslatedPointers, Args \in {<< 5, 6, 8, 9 >>} :
       HostTrampoline(FP, Args, "FFI_OK")
  \/ \E I \in Instructions : GuestStep(I)
  \/ FetchProtHook
  \/ CodeHook
  \/ FetchUnmapped
  \/ EmuReturn
  \/ RunContinuation
  \/ ExecuteLoop

Init == LoaderInit

Spec == Init /\ [][Next]_vars

(***************************************************************************)
(* Specification SpecContract: inside an execute(addr) call, callers       *)
(* invoke continueOutsideEmulation at any moment of an emulator            *)
(* invocation, whether or not a continuation is already pending.  The      *)
(* execute loop and the thunks are those of Spec.                          *)
(***************************************************************************)
Thunks ==
  [kind : {"wrapper"}, Addr : {327808}, Returns : {FALSE}, Args : {<< 0 >>, << 5 >>}]
    \cup [kind : {"dynamic"}, Addr : {266272}, Returns : BOOLEAN,
          Args : {<<>>, << 5, 5 >>, << 5, 5, 0, 0, 11, 12, 13 >>}]

ContractInit ==
  /\ LIs = EmptyLIs
  /\ NextId = 1
  /\ Errors = {}
  /\ Mem = EmptyMem
  /\ Mapped = {[Addr |-> KernelAddr, Size |-> PageSize, Perms |-> 0]}
  /\ Loads = <<>>
  /\ Running = TRUE
  /\ Restart = FALSE
  /\ Continue = FALSE
  /\ Continuation = NoContinuation
  /\ LRs = << 0 >>
  /\ Reg = [r \in {"LR", "R0", "R1", "R2", "R3"} |-> IF r = "LR" THEN KernelAddr ELSE 0]
  /\ PC = 135168
  /\ StopReq = FALSE
  /\ Stack = << Frame("execute", "emu") >>
  /\ Aborted = FALSE
  /\ Unit = NoUnit

ContractCall(Cont) ==
  /\ ~Aborted
  /\ TopIs(Stack, "execute")
  /\ Top(Stack).pc = "emu"
  /\ SetState(continueOutsideEmulation(State, Cont))
  /\ UNCHANGED << Loads, Unit >>

ContractNext ==
  \/ \E Cont \in Thunks : ContractCall(Cont)
  \/ EmuReturn
  \/ RunContinuation
  \/ \E v \in Values : HostReturn(v)
  \/ ExecuteLoop

SpecContract == ContractInit /\ [][ContractNext]_vars

(***************************************************************************)
(* Specification SpecCallback: host code (the initialisers that            *)
(* execute(lib) calls, and what the guest calls) translates function       *)
(* pointers and calls the closures it gets; the guest code it enters only  *)
(* calls the dynamically handled _dyn, returns, or jumps into the void.    *)
(* The heap is kept account of.                                            *)
(***************************************************************************)
MaxTranslates == 2

\* Pointers given to translate: _cb (i@:), functions of the app typed
\* {S=ii}@ and v@ and one with no method type, _f of gen\F (a DLL), and an
\* address in no loaded library.
ClosurePointers == {135172, 135176, 135180, 135184, 266256, 458768}

ClosureArgs == { << 5, 6, 8, 9 >> }

CallbackInstructions ==
  { [op |-> "call", target |-> 266272, lr |-> 135176],
    [op |-> "ret", target |-> 0, lr |-> 0],
    [op |-> "jump", target |-> 4, lr |-> 135176] }

CallbackInit == Constructed /\ Unit = EmptyHeap

CallbackNext ==
  \/ LoadApp
  \/ ExecuteLib
  \/ \E v \in Values : HostReturn(v)
  \/ \E FP \in ClosurePointers, Args \in ClosureArgs, ffi \in FFIOutcomes :
       Unit.Calls < MaxTranslates /\ HostTrampoline(FP, Args, ffi)
  \/ \E I \in CallbackInstructions : GuestStep(I)
  \/ FetchProtHook
  \/ CodeHook
  \/ FetchUnmapped
  \/ EmuReturn
  \/ RunContinuation
  \/ ExecuteLoop

SpecCallback == CallbackInit /\ [][CallbackNext]_vars

(***************************************************************************)
(* DynamicCaller on its own: a caller is constructed while the guest's     *)
(* registers hold R0..R3 and its stack GuestStack, loadArg is called with  *)
(* argument sizes and then call(Returns, Addr).  Unit keeps the caller,    *)
(* the sizes given and what call did.                                      *)
(***************************************************************************)
MaxWords == 7

ArgSizes == {0, 4, 8}

GuestRegs == [R0 |-> 1, R1 |-> 2, R2 |-> 3, R3 |-> 4, LR |-> 135176]

CallerInit ==
  /\ LIs = EmptyLIs
  /\ NextId = 1
  /\ Errors = {}
  /\ Mem = EmptyMem
  /\ Mapped = {[Addr |-> KernelAddr, Size |-> PageSize, Perms |-> 0]}
  /\ Loads = <<>>
  /\ Running = FALSE
  /\ Restart = FALSE
  /\ Continue = FALSE
  /\ Continuation = NoContinuation
  /\ LRs = <<>>
  /\ Reg = GuestRegs
  /\ PC = 0
  /\ StopReq = FALSE
  /\ Stack = <<>>
  /\ Aborted = FALSE
  /\ Unit = [kind |-> "DynamicCaller", DC |-> NewDynamicCaller, Sizes |-> <<>>,
             called |-> FALSE, Returns |-> FALSE, v |-> 0, ok |-> FALSE,
             made |-> FALSE, Called |-> <<>>]

CallerLoadArg(Size) ==
  /\ ~Unit.called
  /\ Len(Unit.DC.Args) + Size \div 4 <= MaxWords
  /\ Len(Unit.Sizes) < MaxWords
  /\ Unit' = [Unit EXCEPT !.DC = loadArg(State, @, Size), !.Sizes = Append(@, Size)]
  /\ UNCHANGED << LIs, NextId, Errors, Mem, Mapped, Loads, Running, Restart,
                  Continue, Continuation, LRs, Reg, PC, StopReq, Stack, Aborted >>

CallerCall(Returns, v) ==
  /\ ~Unit.called
  /\ LET Done(r) ==
           /\ SetState(r.S)
           /\ Unit' = [Unit EXCEPT !.called = TRUE, !.Returns = Returns, !.v = v,
                                   !.ok = r.ok, !.made = r.made, !.Called = r.Called]
     IN  Done(DynamicCaller_call(State, Unit.DC, Returns, 458768, v))
  /\ UNCHANGED Loads

CallerNext ==
  \/ \E Size \in ArgSizes : CallerLoadArg(Size)
  \/ \E Returns \in BOOLEAN, v \in Values : CallerCall(Returns, v)

SpecCaller == CallerInit /\ [][CallerNext]_vars

(***************************************************************************)
(* Path resolution on its own: a freshly constructed loader is handed a    *)
(* path and resolves it, then resolves what that returned.  Unit.Out is    *)
(* the sequence of BinaryPaths returned so far.                            *)
(***************************************************************************)
MaxPathLen == 3
MaxResolves == 2

PathTokens == {"/", "\\", "gen", "C:", "a"}

\* The strings of n characters (or components) drawn from A.
RECURSIVE SeqsOfLen(_, _)
SeqsOfLen(A, n) ==
  IF n = 0 THEN { <<>> }
  ELSE { <<t>> \o p : t \in A, p \in SeqsOfLen(A, n - 1) }

Paths == UNION { SeqsOfLen(PathTokens, n) : n \in 0..MaxPathLen }

ResolveInit ==
  /\ Constructed
  /\ Unit \in { [kind |-> "resolvePath", Path |-> p, Out |-> <<>>] : p \in Paths }

\* resolvePath(Path) first, then resolvePath of the path last returned.
ResolveCall ==
  /\ Len(Unit.Out) < MaxResolves
  /\ Unit' = [Unit EXCEPT !.Out =
                Append(@, resolvePath(IF @ = <<>> THEN Unit.Path
                                                 ELSE @[Len(@)].Path))]
  /\ UNCHANGED << LIs, NextId, Errors, Mem, Mapped, Loads, Running, Restart,
                  Continue, Continuation, LRs, Reg, PC, StopReq, Stack, Aborted >>

SpecResolve == ResolveInit /\ [][ResolveCall]_vars

(***************************************************************************)
(* Properties.  Those of the state machine are stated for Spec (C6 for     *)
(* SpecContract), those of the loader for SpecLoad.  The states of the     *)
(* model are those between two operations: an operation (a hook, a thunk   *)
(* step, a load) is one step.                                              *)
(***************************************************************************)
ThunkFrames(stack) == {i \in 1..Len(stack) : stack[i].kind = "thunk"}

\* C1: after any sequence of execute(addr) entries, hook firings,
\* continuation runs and returnToEmulation calls, (Running, Restart,
\* Continue) is one of IDLE (F,F,F), EMULATING (T,F,F),
\* PAUSED-FOR-CONTINUATION (F,F,T), PAUSED-FOR-RESTART (F,T,F): no two of the
\* flags are true together.
C1_FlagStates ==
  << Running, Restart, Continue >> \in
    { << FALSE, FALSE, FALSE >>, << TRUE, FALSE, FALSE >>,
      << FALSE, FALSE, TRUE >>, << FALSE, TRUE, FALSE >> }

\* C1, its case: a thunk run by an execute nested in another continuation has
\* called returnToEmulation (PAUSED-FOR-RESTART).
C1_Witness ==
  /\ ~Aborted
  /\ Restart
  /\ Cardinality(ExecuteFrames(Stack)) = 2
  /\ Top(Stack).pc = "afterCont"

\* C2: at most one emulator invocation is active: no uc_emu_start is pending
\* below another frame, so execute(addr) never starts the emulator while an
\* earlier start has not returned, and the host code that can reach
\* execute(addr) (thunks, wrappers, callBack, trampolines) never runs above a
\* uc_emu_start, that is, inside a hook.
C2_OneEmulatorCall ==
  \A i \in EmulatorCalls(Stack) : i = Len(Stack)

\* C2, its case: an execute(addr) entered from host code that a continuation
\* of an outer execute(addr) called is running the emulator.
C2_Witness ==
  /\ ~Aborted
  /\ Cardinality(ExecuteFrames(Stack)) = 2
  /\ ThunkFrames(Stack) # {}
  /\ Top(Stack).kind = "execute"
  /\ Top(Stack).pc = "emu"
  /\ Running

\* C3: depth(LRs) is the number of execute(addr) calls entered whose
\* emulation has not returned to the kernel yet, and an execute(addr) call
\* about to return to its caller leaves depth(LRs) as it was at its entry,
\* whatever its continuation did (a dynamic call that fails included).
C3_LRsDepth ==
  ~Aborted =>
    /\ Len(LRs) = Cardinality({i \in ExecuteFrames(Stack) : ~Stack[i].unwound})
    /\ \A i \in ExecuteFrames(Stack) :
         (i = Len(Stack) /\ Stack[i].pc = "afterCont" /\ ~Restart)
           => Len(LRs) = Stack[i].depth0

\* C4: when the emulation entered by an execute(addr) call returns to the
\* kernel sentinel, returnToKernel writes to the guest's LR the value LR held
\* when that execute(addr) call was entered, also for nested calls.
C4_LRRestored ==
  \A i \in ExecuteFrames(Stack) :
    Stack[i].unwound => Stack[i].LRout = Stack[i].LR0

\* C5: every thunk accepted by continueOutsideEmulation is executed exactly
\* once, after the emulator invocation that queued it has returned and before
\* the loop of the enclosing execute(addr) restarts the emulator or returns.
\* On the frame of each execute(addr): an accepted thunk (pending) stops the
\* emulator; it is still pending, with Continue set, when uc_emu_start has
\* returned; it is running exactly while the frame is in Continuation(); the
\* loop goes on (afterCont) only with no thunk or with a thunk that ran; no
\* thunk replaces a pending one and none runs that was not accepted.
C5_ThunkOnce ==
  ~Aborted =>
    /\ \A i \in ExecuteFrames(Stack) :
         /\ Stack[i].queued \in {"none", "pending", "running", "ran"}
         /\ Stack[i].pc = "emu" =>
              /\ Stack[i].queued \in {"none", "pending"}
              /\ Stack[i].queued = "pending" => (i = Len(Stack) /\ StopReq /\ Continue)
         /\ Stack[i].pc = "afterEmu" =>
              /\ Stack[i].queued \in {"none", "pending"}
              /\ (Stack[i].queued = "pending") <=> Continue
         /\ (Stack[i].pc = "inCont") <=> (Stack[i].queued = "running")
         /\ Stack[i].pc = "inCont" => (i < Len(Stack) /\ Stack[i + 1].kind = "thunk")
         /\ Stack[i].pc = "afterCont" => Stack[i].queued \in {"none", "ran"}
    /\ \A j \in ThunkFrames(Stack) :
         j > 1 /\ Stack[j - 1].kind = "execute" /\ Stack[j - 1].pc = "inCont"

\* C5, its case: a thunk was accepted and has run; the loop of execute(addr)
\* is about to restart the emulator.
C5_Witness ==
  /\ ~Aborted
  /\ TopIs(Stack, "execute")
  /\ Top(Stack).pc = "afterCont"
  /\ Top(Stack).queued = "ran"
  /\ Restart

\* C6: a call of continueOutsideEmulation made while a continuation is
\* pending (Continue is true) is rejected: its precondition check fails and
\* the pending continuation is not replaced by the second thunk.
C6_SecondRejected ==
  Continue =>
    \A Cont \in Thunks :
      /\ continueOutsideEmulation(State, Cont).Aborted
      /\ continueOutsideEmulation(State, Cont).Continuation = Continuation
      /\ continueOutsideEmulation(State, Cont).Continue

\* C6, its case: a second call was made while a thunk was pending and was
\* rejected.
C6_Witness ==
  /\ Aborted
  /\ Continue
  /\ Continuation \in Thunks
  /\ Top(Stack).queued = "pending"

\* C7 as stated: Running is false at every state between execute(addr)
\* invoking Continuation() and the thunk returning.
C7_NotRunningDuringThunk ==
  ThunkFrames(Stack) # {} => ~Running

\* C7, amended: between execute(addr) invoking Continuation() and the thunk
\* returning, Running is false whenever the thunk or host code it called is
\* executing; Running is true only while an execute(addr) entered from that
\* host code has the emulator running.
C7_RunningOnlyInNestedEmulation ==
  \A i \in ThunkFrames(Stack) :
    Running => /\ i < Len(Stack)
               /\ Top(Stack).kind = "execute"
               /\ Top(Stack).pc = "emu"
               /\ ~StopReq

\* C7, its case: host code called by the thunk of a nested execute(addr) is
\* executing, the emulation it was called from having been entered by host
\* code of an outer thunk.
C7_Witness ==
  /\ ~Aborted
  /\ Cardinality(ThunkFrames(Stack)) = 2
  /\ Top(Stack).kind = "host"
  /\ ~Running

\* C8: load(p1) followed by load(p2) with resolve(p1) = resolve(p2) returns
\* the identical library record, and the library index holds the one entry
\* of that resolved path.
C8_LoadDeduplicated ==
  \A i, j \in 1..Len(Loads) :
    (i < j /\ Loads[i].Resolved = Loads[j].Resolved) =>
      /\ Loads[i].L = Loads[j].L
      /\ Loads[j].L # Null =>
           (Loads[j].Resolved \in DOMAIN LIs /\ LIs[Loads[j].Resolved].Id = Loads[j].L)

BadHeader(f) ==
  /\ f.magic = "macho"
  /\ \/ f.cpu_type # "CPU_TYPE_ARM"
     \/ f.MH_SPLIT_SEGS
     \/ ~canSegmentsSlide(f)

HeaderErrors ==
  {"expected ARM binary", "MH_SPLIT_SEGS not supported", "the binary is not slideable"}

\* C9: load of a Mach-O file whose CPU type is not ARM, whose header has
\* MH_SPLIT_SEGS or which is not slideable logs an error and returns null.
C9_BadHeaderReturnsNull ==
  \A i \in 1..Len(Loads) :
    BadHeader(FileAt(Loads[i].Resolved)) =>
      /\ Loads[i].L = Null
      /\ (\A j \in 1..(i - 1) : Loads[j].Resolved # Loads[i].Resolved)
           => Loads[i].Reported \cap HeaderErrors # {}

\* The Mach-O images whose loadMachO has completed, and their Slide.
LoadedMachO == {p \in DOMAIN LIs : LIs[p].Kind = "Dylib"}

SlideOf(f) ==
  f.alloc - SegmentRange(f.segments, 1,
              [LowAddr |-> LowAddrInit, HighAddr |-> 0, overlap |-> FALSE]).LowAddr

\* The word the file holds for address a of the slid segment Seg.
OriginalWord(Seg, Slide, a) ==
  [k \in 1..4 |->
     IF a + k - 1 - (Seg.virtual_address + Slide) < Len(Seg.content)
       THEN Seg.content[a + k - (Seg.virtual_address + Slide)]
       ELSE 0]

\* The word at a lies in the copied segment Seg.
InSegment(Seg, Slide, a) ==
  /\ ConvertProtection(Seg.init_protection) # 0
  /\ Seg.virtual_address + Slide <= a
  /\ a + 4 <= Seg.virtual_address + Slide + Seg.virtual_size

\* (w + Slide) modulo 2^32, or zero for a zero word.
Slid(w, Slide) == IF w = ZeroWord THEN ZeroWord ELSE Add32(w, ToBytes32(Slide))

\* The relocations of an image: the segment that lists each and its target.
RelocTargets(f) ==
  UNION { { [seg |-> k, addr |-> f.alloc + f.segments[k].relocations[j].address] :
              j \in 1..Len(f.segments[k].relocations) } :
          k \in 1..Len(f.segments) }

\* The words the bindings of an image name.
BindTargets(f) == { f.bindings[i].address + SlideOf(f) : i \in 1..Len(f.bindings) }

\* C10 as stated: for every relocation in a slid segment's relocation set,
\* after loadMachO the word at the relocation target is (original value +
\* Slide) modulo 2^32 when the original value was not zero, and zero when it
\* was zero.
C10_EveryRelocationSlid ==
  \A p \in LoadedMachO :
    SlideOf(FileAt(p)) # 0 =>
      \A t \in RelocTargets(FileAt(p)) :
        \A k \in 1..Len(FileAt(p).segments) :
          InSegment(FileAt(p).segments[k], SlideOf(FileAt(p)), t.addr) =>
            WordAt(Mem, t.addr) =
              Slid(OriginalWord(FileAt(p).segments[k], SlideOf(FileAt(p)), t.addr),
                   SlideOf(FileAt(p)))

\* A relocation the amended C10 speaks of: its target word lies inside the
\* segment that lists it, and no other segment, no other relocation and no
\* binding of the image covers the word.
Rebased(f, t) ==
  /\ InSegment(f.segments[t.seg], SlideOf(f), t.addr)
  /\ \A k \in 1..Len(f.segments) :
       k # t.seg =>
         \/ f.segments[k].virtual_address + SlideOf(f) + f.segments[k].virtual_size <= t.addr
         \/ t.addr + 4 <= f.segments[k].virtual_address + SlideOf(f)
  /\ \A u \in RelocTargets(f) : u.addr = t.addr \/ u.addr + 4 <= t.addr \/ t.addr + 4 <= u.addr
  /\ \A u \in RelocTargets(f) : u.addr = t.addr => u.seg = t.seg
  /\ \A b \in BindTargets(f) : b + 4 <= t.addr \/ t.addr + 4 <= b

\* C10, amended: for every relocation of a slid segment whose target word
\* lies inside that segment and is covered by no other segment, no other
\* relocation and no binding of the image, after loadMachO the word is
\* (original value + Slide) modulo 2^32 when the original value was not zero
\* and zero when it was zero.
C10_RelocationsSlid ==
  \A p \in LoadedMachO :
    SlideOf(FileAt(p)) # 0 =>
      \A t \in RelocTargets(FileAt(p)) :
        Rebased(FileAt(p), t) =>
          WordAt(Mem, t.addr) =
            Slid(OriginalWord(FileAt(p).segments[t.seg], SlideOf(FileAt(p)), t.addr),
                 SlideOf(FileAt(p)))

\* C10, its case: an image was loaded with a Slide that wraps, and its
\* relocations met a pointer, which the addition carries out of 32 bits, and
\* a null pointer; another image has a relocated word that is also bound.
C10_Witness ==
  /\ \E p \in LoadedMachO :
       /\ SlideOf(FileAt(p)) < 0
       /\ \E t \in RelocTargets(FileAt(p)) :
            /\ Rebased(FileAt(p), t)
            /\ OriginalWord(FileAt(p).segments[t.seg], SlideOf(FileAt(p)), t.addr)
                 = << 240, 255, 255, 255 >>
            /\ WordAt(Mem, t.addr) = << 240, 255, 242, 255 >>
       /\ \E t \in RelocTargets(FileAt(p)) :
            /\ Rebased(FileAt(p), t)
            /\ OriginalWord(FileAt(p).segments[t.seg], SlideOf(FileAt(p)), t.addr) = ZeroWord
            /\ WordAt(Mem, t.addr) = ZeroWord
  /\ \E p \in LoadedMachO :
       \E t \in RelocTargets(FileAt(p)) : t.addr \in BindTargets(FileAt(p))

(***************************************************************************)
(* TypeDecoder on its own: a decoder is constructed on a type string and   *)
(* the caller asks for sizes while hasNext().  Unit.T is the string,       *)
(* Unit.pos the cursor, Unit.Sizes the results so far.                     *)
(***************************************************************************)
MaxTypeLen == 3

TypeChars == {"v", "i", "^", "{", "}", "=", "S", "4", " "}

\* Method-type strings with one case of the decoder each:
\* v, c@:iIf, ^i, {S=ii}, {S=} and {S=^v i}.
Types ==
  [void |-> <<"v">>,
   args |-> <<"c", "@", ":", "i", "I", "f">>,
   ptr |-> <<"^", "i">>,
   struct |-> <<"{", "S", "=", "i", "i", "}">>,
   empty |-> <<"{", "S", "=", "}">>,
   spaced |-> <<"{", "S", "=", "^", "v", " ", "i", "}">>]

TypeStrings ==
  { Types[n] : n \in DOMAIN Types }
    \cup UNION { SeqsOfLen(TypeChars, n) : n \in 0..MaxTypeLen }

DecodeInit ==
  /\ Constructed
  /\ Unit \in { [kind |-> "TypeDecoder", T |-> t, pos |-> 1, Sizes |-> <<>>,
                  errs |-> {}] : t \in TypeStrings }

\* while (TD.hasNext()) TD.getNextTypeSize().  A cursor that went past the
\* NUL makes hasNext read outside the string; the call sequence is followed
\* only while the cursor is inside it.
DecodeNext ==
  /\ Unit.pos <= Len(Unit.T) + 1
  /\ hasNext(Unit.T, Unit.pos)
  /\ LET Got(r) ==
           Unit' = [Unit EXCEPT !.pos = r.pos, !.Sizes = Append(@, r.size),
                                !.errs = @ \cup r.errs]
     IN  Got(getNextTypeSize(Unit.T, Unit.pos))
  /\ UNCHANGED << LIs, NextId, Errors, Mem, Mapped, Loads, Running, Restart,
                  Continue, Continuation, LRs, Reg, PC, StopReq, Stack, Aborted >>

SpecDecode == DecodeInit /\ [][DecodeNext]_vars

(***************************************************************************)
(* The unmapped-access hook on its own: the guest reads or writes Size     *)
(* bytes at Addr, the byte at Addr is in no mapped region, and the core    *)
(* calls the hook.  Unit keeps the hook's arguments.                       *)
(***************************************************************************)
MaxPage == 3

AccessAddrs == { pg * PageSize + o : pg \in 0..MaxPage, o \in {0, 2048, 4094, 4095} }
AccessSizes == {1, 2, 4}

MemUnmappedHook(Addr, Size) ==
  /\ ~IsMapped(Mapped, Addr)
  /\ SetLoaderState(handleMemUnmapped(LoaderState, Addr, Size))
  /\ Unit' = [kind |-> "handleMemUnmapped", Addr |-> Addr, Size |-> Size]
  /\ UNCHANGED << Loads, Running, Restart, Continue, Continuation, LRs, Reg, PC,
                  StopReq, Stack, Aborted >>

MemNext == \E Addr \in AccessAddrs, Size \in AccessSizes : MemUnmappedHook(Addr, Size)

SpecMem == LoaderInit /\ [][MemNext]_vars

\* C11: resolving a resolved path changes nothing, and every path that
\* starts with '/' resolves to a relative path under gen: "gen" followed by
\* the separator (the host's preferred one, which make_preferred writes).
C11_ResolveIdempotent ==
  /\ Len(Unit.Out) >= 2 => Unit.Out[2] = Unit.Out[1]
  /\ (Len(Unit.Out) >= 1 /\ Unit.Path # <<>> /\ Unit.Path[1] = "/") =>
       /\ Unit.Out[1].Relative
       /\ startsWith(Unit.Out[1].Path, <<"gen", "\\">>)
       /\ is_relative(Unit.Out[1].Path)

\* C11 witness: an iOS-absolute path with inner separators was resolved
\* twice.
C11_Witness ==
  /\ Len(Unit.Out) = 2
  /\ Unit.Path = <<"/", "a", "/">>
  /\ Unit.Out[2].Path = <<"gen", "\\", "a", "\\">>

RECURSIVE SumOf(_)
SumOf(q) == IF q = <<>> THEN 0 ELSE Head(q) + SumOf(Tail(q))

\* The decoder has returned every size of its string.
Decoded(t) == Unit.T = t /\ Unit.pos = Len(t) + 1

\* C12 as stated: the sizes of v, c@:iIf, ^i, {S=ii}, {S=} and {S=^v i} add
\* up to 0, 4, 4, 8, 0 and 8, none of them invalid.
C12_SumsAsStated ==
  \A e \in { <<Types.void, 0>>, <<Types.args, 4>>, <<Types.ptr, 4>>, <<Types.struct, 8>>,
             <<Types.empty, 0>>, <<Types.spaced, 8>> } :
    Decoded(e[1]) =>
      /\ \A k \in 1..Len(Unit.Sizes) : Unit.Sizes[k] # InvalidSize
      /\ SumOf(Unit.Sizes) = e[2]

\* C12 amended: the sizes of v, c@:iIf, ^i, {S=ii} and {S=} add up to 0, 24,
\* 4, 8 and 0 with no invalid result and nothing reported; every result for
\* {S=^v i} is invalid, with "unsupported type encoding" reported.
C12_Sums ==
  /\ \A e \in { <<Types.void, 0>>, <<Types.args, 24>>, <<Types.ptr, 4>>, <<Types.struct, 8>>,
                <<Types.empty, 0>> } :
       Decoded(e[1]) =>
         /\ \A k \in 1..Len(Unit.Sizes) : Unit.Sizes[k] # InvalidSize
         /\ SumOf(Unit.Sizes) = e[2]
         /\ Unit.errs = {}
  /\ Unit.T = Types.spaced =>
       /\ \A k \in 1..Len(Unit.Sizes) : Unit.Sizes[k] = InvalidSize
       /\ Unit.Sizes # <<>> => Unit.errs = {"unsupported type encoding"}

\* C12 witness: c@:iIf was decoded to its end in six calls.
C12_Witness == Decoded(Types.args) /\ Len(Unit.Sizes) = 6

\* C12 witness of the rejected string: {S=^v i} was decoded to its end.
C12_WitnessSpaced == Decoded(Types.spaced) /\ Len(Unit.Sizes) = 2

\* Address a lies in a region mapped UC_PROT_READ | UC_PROT_WRITE.
ReadWrite(a) ==
  \E r \in RegionsAt(Mapped, a) :
    HasBit(r.Perms, UC_PROT_READ) /\ HasBit(r.Perms, UC_PROT_WRITE)

\* C13: after handleMemUnmapped(Addr, Size) has returned, every byte of
\* [Addr, Addr + Size) lies in a region mapped READ|WRITE.
C13_AccessedRangeMapped ==
  Unit.kind = "handleMemUnmapped" =>
    \A a \in Unit.Addr .. (Unit.Addr + Unit.Size - 1) : ReadWrite(a)

\* A step in which host code invokes a closure: handleTrampoline and the
\* execute frame it calls are pushed.
TrampolineInvoked ==
  /\ Len(Stack') = Len(Stack) + 2
  /\ Stack'[Len(Stack) + 1].kind = "trampoline"

\* A step in which handleTrampoline returns to the host code that invoked it.
TrampolineReturned ==
  /\ Len(Stack) >= 3
  /\ Stack[Len(Stack) - 1].kind = "trampoline"
  /\ Len(Stack') = Len(Stack) - 2

\* C14: invoking a trampoline made for guest address A with ArgC = n writes
\* argument word k to Rk for k < n (and no other register), then enters
\* emulation at A through execute(A); when it returns and the signature
\* returns a value, the caller's return slot receives the guest's R0 (and is
\* left alone otherwise).
C14_TrampolineCall ==
  [][ /\ TrampolineInvoked =>
         LET Tr == Stack'[Len(Stack) + 1].cont
         IN  /\ \A k \in 0..3 :
                  Reg'[RegName(k)] = IF k < Tr.ArgC THEN Tr.Args[k + 1]
                                                   ELSE Reg[RegName(k)]
             /\ PC' = Tr.Addr
             /\ Top(Stack').kind = "execute" /\ Top(Stack').pc = "emu"
             /\ Running'
             /\ LRs' = Append(LRs, Reg["LR"])
             /\ Reg'["LR"] = KernelAddr
      /\ TrampolineReturned =>
         LET Tr == Stack[Len(Stack) - 1].cont
         IN  Top(Stack').Ret = IF Tr.Returns THEN Reg["R0"]
                                            ELSE Stack[Len(Stack) - 2].Ret
    ]_vars

\* C14 witness: the closure of _cb (two arguments, returns a value) was
\* invoked with 5 and 6, the guest ran, and its R0 is in the caller's return
\* slot.
C14_Witness ==
  /\ ~Aborted
  /\ TopIs(Stack, "host")
  /\ Top(Stack).Ret = 5
  /\ Reg["R1"] = 6
  /\ Unit.Last.P = 135172

\* C15 as stated: translate(P) returns P exactly when P lies in no emulated
\* dylib; inside one it returns a closure, or null when no method type is
\* registered for P.
C15_ClosureUnlessUntyped ==
  Unit.kind = "heap" /\ Unit.Last.Ptr # "none" =>
    /\ Unit.Last.Ptr = "same" <=> Unit.Last.In # "Dylib"
    /\ Unit.Last.In = "Dylib" =>
         Unit.Last.Ptr = (IF Unit.Last.T = <<>> THEN "null" ELSE "closure")

\* C15 amended: translate(P) returns P exactly when P lies in no emulated
\* dylib (no library, or a DLL); inside one it returns a closure bound to P
\* or null, and null whenever no method type is registered for P, the type
\* returns a structure, or libffi fails.
C15_TranslateResult ==
  Unit.kind = "heap" /\ Unit.Last.Ptr # "none" =>
    /\ Unit.Last.Ptr = "same" <=> Unit.Last.In # "Dylib"
    /\ Unit.Last.In = "Dylib" =>
         /\ Unit.Last.Ptr \in {"closure", "null"}
         /\ Unit.Last.Ptr = "closure" => Unit.Last.Tr.Addr = Unit.Last.P
         /\ Unit.Last.T = <<>> => Unit.Last.Ptr = "null"
         /\ Unit.Last.T = Types.struct \o <<"@">> => Unit.Last.Ptr = "null"
         /\ Unit.Last.ffi # "FFI_OK" => Unit.Last.Ptr = "null"
         /\ (Unit.Last.ffi = "FFI_OK" /\ Unit.Last.T \in {<<"i", "@", ":">>, <<"v", "@">>})
              => Unit.Last.Ptr = "closure"

\* C15 witness: a pointer into the app with no method type was translated
\* (null) after one with a type was (closure).
C15_Witness ==
  /\ Unit.kind = "heap"
  /\ Unit.Last.P = 135184 /\ Unit.Last.Ptr = "null"
  /\ Unit.Closures = 1

\* Argument word k (from 0) of the AAPCS32 call the guest has made.
GuestWord(k) ==
  IF k <= 3 THEN GuestRegs[RegName(k)]
  ELSE IF k - 3 \in DOMAIN GuestStack THEN GuestStack[k - 3] ELSE 0

\* C16: after loadArg calls with sizes that are multiples of 4, the staged
\* words are the guest's argument words in order (R0..R3, then the stack at
\* SP + (k - 4) * 4); call(Returns, Addr) with 0..6 words calls the host
\* function with exactly those words and writes the result to R0 iff
\* Returns; with more than 6 it makes no call, returns false and leaves R0.
C16_DynamicCaller ==
  Unit.kind = "DynamicCaller" =>
    /\ Len(Unit.DC.Args) * 4 = SumOf(Unit.Sizes)
    /\ \A k \in 0..(Len(Unit.DC.Args) - 1) : Unit.DC.Args[k + 1] = GuestWord(k)
    /\ Unit.called =>
         IF Len(Unit.DC.Args) <= 6
           THEN /\ Unit.ok /\ Unit.made
                /\ Unit.Called = Unit.DC.Args
                /\ Reg["R0"] = IF Unit.Returns THEN Unit.v ELSE GuestRegs["R0"]
                /\ Errors = {}
           ELSE /\ ~Unit.ok /\ ~Unit.made
                /\ Reg = GuestRegs

\* C16 witness: six words, two of them from the stack, were staged with
\* sizes 8, 4, 0, 4, 8 and passed to a function whose result went to R0.
C16_Witness ==
  /\ Unit.kind = "DynamicCaller"
  /\ Unit.Sizes = << 8, 4, 0, 4, 8 >>
  /\ Unit.called /\ Unit.Returns
  /\ Unit.Called = << 1, 2, 3, 4, 11, 12 >>
  /\ Reg["R0"] = 7

\* Frames i .. i + 2 of the host stack: an execute(addr) call whose thunk is
\* calling a host wrapper.
InWrapper(i) ==
  /\ i + 2 <= Len(Stack)
  /\ Stack[i].kind = "execute"
  /\ Stack[i + 1].kind = "thunk" /\ Stack[i + 1].cont.kind = "wrapper"
  /\ Stack[i + 2].kind = "host" /\ Stack[i + 2].pc = "wrapper"

\* The nested scenario with its outer execute(addr) at frame i: guest code
\* called a host wrapper, which called a guest callback, which called a host
\* wrapper that is now running.
NestedAt(i) ==
  /\ ~Aborted
  /\ Len(Stack) = i + 6
  /\ InWrapper(i)
  /\ Stack[i + 3].kind \in {"callBack", "trampoline"}
  /\ InWrapper(i + 4)
  /\ ExecuteFrames(Stack) = {i, i + 4}

\* No dynamic call has failed (the failure of C3, which leaves an entry on
\* LRs behind).
NoFailedCall == \A e \in Errors : e.msg # "function has too many arguments"

\* C17 as stated: in the nested scenario the LR stack has depth 3.
C17_DepthThree ==
  \A i \in 1..Len(Stack) : NestedAt(i) => Len(LRs) = 3

\* C17 amended: in the nested scenario, nothing else having entered the
\* emulator and left an entry behind, the LR stack has depth 2, one entry per
\* execute(addr) call (the wrappers run as continuations and push nothing);
\* and the frames unwind in LIFO order: each returnToKernel gives LR the
\* value its own execute(addr) saved and leaves LRs as deep as that call
\* found it.
C17_NestedDepthTwo ==
  (NoFailedCall /\ ~Aborted) =>
    /\ \A i \in 1..Len(Stack) :
         NestedAt(i) =>
           /\ Len(LRs) = 2
           /\ LRs = << Stack[i].LR0, Stack[i + 4].LR0 >>
           /\ Stack[i].depth0 = 0 /\ Stack[i + 4].depth0 = 1
    /\ \A i \in ExecuteFrames(Stack) :
         Stack[i].unwound => Stack[i].LRout = Stack[i].LR0 /\ Len(LRs) = Stack[i].depth0

\* C17 witness: the inner wrapper of the nested scenario is running, the
\* callback having been entered with a guest return address in LR.
C17_Witness ==
  /\ \E i \in 1..Len(Stack) : NestedAt(i) /\ Stack[i + 4].LR0 = 135176
  /\ Len(LRs) = 2

\* C18: the Trampoline records allocated never outnumber the distinct
\* emulated pointers that were translated; nor do the closures.
C18_AllocatesOnce ==
  Unit.kind = "heap" =>
    /\ Unit.Trampolines <= Cardinality(Unit.Translated)
    /\ Unit.Closures <= Cardinality(Unit.Translated)

\* C19: when a continuation has ended with returnToEmulation, the loop of
\* execute(addr) is about to restart the emulator at the guest LR of the
\* moment the hook deferred that continuation (LRq: the emulator was stopped
\* from then until the thunk was called), whatever the thunk did.
C19_RestartAtDeferredLR ==
  (~Aborted /\ TopIs(Stack, "execute") /\ Top(Stack).pc = "afterCont" /\ Restart)
    => Reg["LR"] = Top(Stack).LRq

\* The emulator is about to fetch from an address that is mapped, not
\* executable and inside a library: the fetch-protection hook fires next.
HookFires ==
  /\ Emulating
  /\ IsMapped(Mapped, PC) /\ ~Executable(Mapped, PC)
  /\ lookup(LIs, PC).Lib # Null

\* The RVA of PC in its library is in the WrapperIndex of the library's
\* wrapper DLL.
IndexHit(path) ==
  LET Has(f) == /\ "Idx" \in DOMAIN f
                /\ (PC - LIs[path].StartAddress + 4096) \in DOMAIN f.Idx.Map
  IN  Has(FileAt(WrapperPathOf(path)))

\* The alias $__ipaSim_wraps_<RVA> of PC, once the hook has loaded the
\* library the index names.
AliasOf(path) ==
  LET RVA == PC - LIs[path].StartAddress + 4096
      Idx == FileAt(WrapperPathOf(path)).Idx
  IN  findSymbol(LIs'[resolvePath(Idx.Dylibs[Idx.Map[RVA]]).Path],
                 "$__ipaSim_wraps_" \o ToString(RVA))

\* C20 as stated: the hook fired at an address of a non-wrapper library
\* whose RVA is in the WrapperIndex defers a thunk that calls the alias with
\* the guest's R0.
C20_IndexHitDefers ==
  [][ LET Hit(path) ==
            (~LIs[path].IsWrapperDLL /\ IndexHit(path)) =>
              /\ Continue'
              /\ Continuation' = [kind |-> "wrapper", Addr |-> AliasOf(path),
                                  Returns |-> FALSE, Args |-> << Reg["R0"] >>]
      IN  HookFires => Hit(lookup(LIs, PC).LibPath)
    ]_vars

\* C20 amended: on an index hit the hook, Wrapper being false, writes the
\* alias address to the guest's PC and returns true, deferring nothing and
\* not stopping the emulator; the thunk that calls the function at PC with
\* the guest's R0 and then returnToEmulation is deferred when the hook fires
\* at an address of a wrapper DLL.
C20_IndexHitJumps ==
  [][ LET Hook(path) ==
            /\ (~LIs[path].IsWrapperDLL /\ IndexHit(path)) =>
                 /\ PC' = AliasOf(path)
                 /\ ~Continue' /\ ~StopReq' /\ Running' /\ ~Aborted'
                 /\ UNCHANGED << Continuation, Reg, Stack, LRs >>
            /\ LIs[path].IsWrapperDLL =>
                 /\ Continue' /\ StopReq' /\ ~Running'
                 /\ Continuation' = [kind |-> "wrapper", Addr |-> PC,
                                     Returns |-> FALSE, Args |-> << Reg["R0"] >>]
                 /\ UNCHANGED << PC, Reg >>
      IN  HookFires => Hook(lookup(LIs, PC).LibPath)
    ]_vars

\* C20 witness: the hook has fired at _f of gen\F with 5 in R0 and sent the
\* emulator to the alias in the wrapper DLL, where the hook is about to fire
\* again.
C20_Witness ==
  /\ HookFires
  /\ lookup(LIs, PC).LibPath = FWrapperPath
  /\ PC = 327808
  /\ ~Continue
  /\ Reg["R0"] = 5

\* The target a lies outside the range [VAddr, VAddr + VSize) of the slid
\* segment Seg.
OutOfRange(Seg, Slide, a) ==
  \/ a < Seg.virtual_address + Slide
  \/ a >= Seg.virtual_address + Slide + Seg.virtual_size

\* C21: loadMachO never modifies memory at a relocation target outside the
\* range of the segment being relocated: after the load, the word at such a
\* target, which no binding and no relocation of its own segment names,
\* still holds what the file holds for it.
C21_OutOfRangeUntouched ==
  \A p \in LoadedMachO :
    LET Untouched(f, Slide) ==
          \A t \in RelocTargets(f) :
            (Slide # 0 /\ OutOfRange(f.segments[t.seg], Slide, t.addr)) =>
              \A k \in 1..Len(f.segments) :
                ( /\ InSegment(f.segments[k], Slide, t.addr)
                  /\ t.addr \notin BindTargets(f)
                  /\ \A u \in RelocTargets(f) : u.seg = k => u.addr # t.addr )
                  => WordAt(Mem, t.addr) = OriginalWord(f.segments[k], Slide, t.addr)
    IN  Untouched(FileAt(p), SlideOf(FileAt(p)))

(***************************************************************************)
(* translate on type strings: the trampoline is made for a callback whose  *)
(* method type is T.  Unit.T is the string, Unit.After what memory holds   *)
(* after its NUL (the decoder reads it when its cursor passes the NUL),    *)
(* Unit.Ptr and Unit.Tr what translate handed back.                        *)
(***************************************************************************)
MaxCallbackArgs == 5

RECURSIVE Flat(_)
Flat(q) == IF q = <<>> THEN <<>> ELSE Head(q) \o Flat(Tail(q))

\* A return type followed by up to MaxCallbackArgs argument types.
CallbackTypes ==
  LET Rets == { <<"v">>, <<"i">>, <<"{", "S", "=", "i", "i", "}">>, <<"q">>, <<"^">> }
      ArgTypes == { <<"i">>, <<"^">>, <<"v">>, <<"{", "S", "=", "i", "i", "}">> }
  IN  { r \o Flat(a) : r \in Rets,
                       a \in UNION { SeqsOfLen(ArgTypes, n) : n \in 0..MaxCallbackArgs } }

TranslateInit ==
  /\ Constructed
  /\ Unit \in { [kind |-> "translate", T |-> t, After |-> m, called |-> FALSE,
                  Ptr |-> "none", Tr |-> NoTrampoline] :
                  t \in CallbackTypes, m \in { <<>>, <<"i">>, <<"q">> } }

\* translate(Addr) from "First, handle the return value" on; the decoder
\* reads the bytes that start at T.
TranslateCall(ffi) ==
  /\ ~Unit.called
  /\ LET Done(r) ==
           /\ SetState(r.S)
           /\ Unit' = [Unit EXCEPT !.called = TRUE, !.Ptr = r.Ptr, !.Tr = r.Tr]
     IN  Done(createTrampoline(State, 135172, Unit.T \o << "NUL" >> \o Unit.After, ffi))
  /\ UNCHANGED Loads

TranslateNext == \E ffi \in FFIOutcomes : TranslateCall(ffi)

SpecTranslate == TranslateInit /\ [][TranslateNext]_vars

\* The sizes the decoder returns on the bytes M from cursor i on, asked while
\* hasNext() and until one is invalid.
RECURSIVE ArgSizesOf(_, _)
ArgSizesOf(M, i) ==
  IF ~hasNext(M, i) THEN <<>>
  ELSE LET More(r) ==
             IF r.size = InvalidSize THEN << InvalidSize >>
             ELSE << r.size >> \o ArgSizesOf(M, r.pos)
       IN  More(getNextTypeSize(M, i))

\* The decoded return size followed by the decoded argument sizes.
SizesOf(M) ==
  LET More(r) ==
        IF r.size = InvalidSize THEN << InvalidSize >>
        ELSE << r.size >> \o ArgSizesOf(M, r.pos)
  IN  More(getNextTypeSize(M, 1))

\* Return size 0 or 4, every argument of size 4, at most four arguments.
Supported(q) ==
  /\ q[1] \in {0, 4}
  /\ \A k \in 2..Len(q) : q[k] = 4
  /\ Len(q) - 1 <= 4

\* C22: translate hands back a closure only if the decoded return size is 0
\* or 4, every decoded argument size is 4 and there are at most four
\* arguments, and the trampoline then records that number of arguments and
\* whether a value is returned; for every other type string it reports an
\* error and returns null; every trampoline has ArgC in 0..4.
C22_SupportedSignatures ==
  Unit.called =>
    LET Holds(q) ==
          /\ Unit.Ptr = "closure" =>
               /\ Supported(q)
               /\ Unit.Tr.ArgC = Len(q) - 1
               /\ Unit.Tr.Returns = (q[1] = 4)
          /\ ~Supported(q) => (Unit.Ptr = "null" /\ Errors # {})
          /\ Unit.Tr.ArgC \in 0..4
    IN  Holds(SizesOf(Unit.T \o << "NUL" >> \o Unit.After))

\* C22 witness: a closure was made for a callback that returns nothing and
\* takes four arguments.
C22_Witness ==
  /\ Unit.called
  /\ Unit.T = << "v", "i", "i", "i", "i" >>
  /\ Unit.Ptr = "closure"
  /\ Unit.Tr.ArgC = 4

\* C23: for every host PE that loadPE has located, with start address S and
\* size Z, one region mapped UC_PROT_READ | UC_PROT_WRITE contains the whole
\* range [S, S + Z).
C23_PERangeMapped ==
  \A p \in DOMAIN LIs :
    (LIs[p].Kind = "Dll" /\ LIs[p].init) =>
      \E r \in Mapped :
        /\ r.Perms = UC_PROT_READ + UC_PROT_WRITE
        /\ r.Addr <= LIs[p].StartAddress
        /\ LIs[p].StartAddress + LIs[p].Size <= r.Addr + r.Size

(***************************************************************************)
(* The first loop of loadMachO on its own: the segments of a binary are    *)
(* walked in their order.  Unit.segs is the list, Unit.r what the loop     *)
(* leaves: LowAddr, HighAddr and whether it reported an overlap.           *)
(***************************************************************************)
MaxSegments == 3

SegmentLists ==
  UNION { SeqsOfLen({ Segment(va, vs, 0, <<>>, <<>>) :
                        va \in {0, 4096, 8192}, vs \in {1, 4097, 12288} }, n) :
          n \in 1..MaxSegments }

SegmentsInit ==
  /\ Constructed
  /\ Unit \in { [kind |-> "segments", segs |-> q, done |-> FALSE,
                  r |-> [LowAddr |-> LowAddrInit, HighAddr |-> 0, overlap |-> FALSE]] :
                  q \in SegmentLists }

SegmentsCall ==
  /\ ~Unit.done
  /\ Unit' = [Unit EXCEPT !.done = TRUE, !.r = SegmentRange(Unit.segs, 1, @)]
  /\ Errors' = IF Unit'.r.overlap
                 THEN Errors \cup {ErrorRec("overlapping segments (after rounding to pagesize)", <<>>)}
                 ELSE Errors
  /\ UNCHANGED << LIs, NextId, Mem, Mapped, Loads, Running, Restart, Continue,
                  Continuation, LRs, Reg, PC, StopReq, Stack, Aborted >>

SpecSegments == SegmentsInit /\ [][SegmentsCall]_vars

\* The rounded ranges of segments i and j intersect.
Intersect(segs, i, j) ==
  /\ segs[i].virtual_address
       < roundToPageSize(segs[j].virtual_address + segs[j].virtual_size)
  /\ segs[j].virtual_address
       < roundToPageSize(segs[i].virtual_address + segs[i].virtual_size)

\* C24: the overlap error is reported exactly when the rounded ranges of two
\* segments of the list intersect, and [LowAddr, HighAddr) runs from the
\* lowest start to the highest rounded end.
C24_OverlapExact ==
  Unit.done =>
    LET Exact(segs, r) ==
          /\ r.overlap <=> \E i, j \in 1..Len(segs) : i < j /\ Intersect(segs, i, j)
          /\ \A i \in 1..Len(segs) :
               /\ r.LowAddr <= segs[i].virtual_address
               /\ roundToPageSize(segs[i].virtual_address + segs[i].virtual_size) <= r.HighAddr
          /\ \E i \in 1..Len(segs) : r.LowAddr = segs[i].virtual_address
          /\ \E i \in 1..Len(segs) :
               r.HighAddr = roundToPageSize(segs[i].virtual_address + segs[i].virtual_size)
    IN  Exact(Unit.segs, Unit.r)

\* C25: load returns for libraries that refer to each other and to
\* themselves, and no resolved path is parsed and mapped twice: no two
\* records share an Id, as many records were ever made (by loadMachO or
\* loadPE, which parse and map) as the index holds plus those a failed loadPE
\* erased, and every library a loaded Mach-O image refers to is in the index.
C25_LoadedOnce ==
  /\ \A p, q \in DOMAIN LIs : LIs[p].Id = LIs[q].Id => p = q
  /\ NextId - 1 = Cardinality(DOMAIN LIs)
                    + Cardinality({ i \in DOMAIN Loads :
                                      "couldn't load DLL: " \in Loads[i].Reported })
  /\ \A p \in LoadedMachO :
       \A k \in 1..Len(FileAt(p).libraries) :
         resolvePath(FileAt(p).libraries[k]).Path \in DOMAIN LIs

\* C25 witness: load of gen\L has returned; gen\L refers to gen\M, which
\* refers to gen\L and to itself, and each was entered once.
C25_Witness ==
  /\ Len(Loads) = 1
  /\ Loads[1].Path = LibLPath
  /\ Loads[1].L # Null
  /\ DOMAIN LIs = { <<"gen", "\\", "L">>, <<"gen", "\\", "M">> }
  /\ \A p \in DOMAIN LIs : LIs[p].init
  /\ NextId = 3

\* C26: while a continuation is executing, from execute calling it until it
\* returns, the stored Continuation is the one that is executing: nothing
\* was stored over it.
C26_ContinuationKept ==
  \A i \in 1..Len(Stack) :
    Stack[i].kind = "thunk" => Continuation = Stack[i].cont

\* C27: when load(p) has failed and returned null, the library index holds
\* no record for the resolved path of p.
C27_FailedLoadLeavesNoRecord ==
  (Loads # <<>> /\ Loads[Len(Loads)].L = Null) =>
    Loads[Len(Loads)].Resolved \notin DOMAIN LIs

(***************************************************************************)
(* DynamicBackCaller::callBackR: host code calls a function pointer and    *)
(* asks for its result.  Unit.FP is the pointer of the last call,          *)
(* Unit.Returned the value the function at FP returned (the guest's R0     *)
(* when execute returned, or the host function's own result) and Unit.Got  *)
(* what callBackR handed back.                                             *)
(***************************************************************************)
MaxBackCalls == 2

\* callBackR up to the call callBack makes.
HostCallBackR(FP, Args) ==
  /\ Unit.Calls < MaxBackCalls
  /\ ~Aborted
  /\ TopIs(Stack, "host")
  /\ Cardinality(ExecuteFrames(Stack)) < MaxDepth
  /\ Len(LRs) < MaxDepth
  /\ Top(Stack).pc # "native"
  /\ SetState(callBack(State, FP, Args))
  /\ Unit' = [Unit EXCEPT !.Calls = @ + 1, !.FP = FP, !.done = FALSE]
  /\ UNCHANGED Loads

\* The native function called by callBack returns v, which the call through
\* void (*)(ArgTypes...) drops; callBackR then fetches R0.
NativeReturn(v) ==
  /\ ~Aborted
  /\ TopIs(Stack, "host")
  /\ Top(Stack).pc = "native"
  /\ SetState([State EXCEPT !.Stack = Pop(@)])
  /\ Unit' = [Unit EXCEPT !.done = TRUE, !.Returned = v, !.Got = Reg["R0"]]
  /\ UNCHANGED Loads

\* execute is about to return to the callBack that called it.
BackCallReturns ==
  /\ ~Restart
  /\ Len(Stack) > 1
  /\ Stack[Len(Stack) - 1].kind = "callBack"

\* Sys.execute(Addr) returns to callBack; callBackR then fetches R0.
EmulatedReturn ==
  /\ ~Aborted
  /\ TopIs(Stack, "execute")
  /\ Top(Stack).pc = "afterCont"
  /\ BackCallReturns
  /\ SetState(Returned(State))
  /\ Unit' = [Unit EXCEPT !.done = TRUE, !.Returned = Reg["R0"], !.Got = Reg["R0"]]
  /\ UNCHANGED Loads

BackCallNext ==
  \/ LoadApp
  \/ ExecuteLib
  \/ \E v \in Values : ~(TopIs(Stack, "host") /\ Top(Stack).pc = "native") /\ HostReturn(v)
  \/ \E v \in Values : NativeReturn(v)
  \/ \E FP \in CallbackPointers, Args \in {<< 5, 6 >>} : HostCallBackR(FP, Args)
  \/ \E I \in CallbackInstructions : GuestStep(I)
  \/ FetchProtHook
  \/ CodeHook
  \/ FetchUnmapped
  \/ EmuReturn
  \/ RunContinuation
  \/ ~BackCallReturns /\ ExecuteLoop
  \/ EmulatedReturn

BackCallInit ==
  /\ Constructed
  /\ Unit = [kind |-> "callBackR", Calls |-> 0, FP |-> 0, done |-> FALSE,
             Returned |-> 0, Got |-> 0]

SpecBackCall == BackCallInit /\ [][BackCallNext]_vars

\* C28: callBackR hands back the value the function at FP returned, be it
\* emulated or native.
C28_CallBackRValue == Unit.done => Unit.Got = Unit.Returned

\* C29: every call to getNextTypeSize leaves the cursor at or before the
\* terminating NUL of the type string.
C29_CursorInString == Unit.pos <= Len(Unit.T) + 1

====
